---- MODULE Spec2Model ----
(***************************************************************************)
(* AstrOS: the intent resolution and response orchestration pipeline.      *)
(*                                                                         *)
(*   text -> NLP processor (local pattern matcher, optional remote         *)
(*   classification) -> Intent -> plugin manager -> handler result ->      *)
(*   response generator -> result of AstrOSAgent.process_command           *)
(*                                                                         *)
(* Conventions of the model                                                *)
(*   - texts are strings; Python's str operations are operators on them;   *)
(*   - scores and confidences are in tenths (0.2 * words + 0.8 is          *)
(*     2 * words + 8; the floors 0.5 and 0.6 are 5 and 6);                 *)
(*   - Python numbers are exact rationals [n, d, isfloat];                 *)
(*   - None is the record/string the comment of each definition names.     *)
(***************************************************************************)
EXTENDS Integers, Sequences, FiniteSets, TLC

-----------------------------------------------------------------------------
(* Python str primitives                                                   *)

Ch(s, i) == SubSeq(s, i, i)

\* s[i-1:j] of Python, with the 1-based, inclusive bounds of SubSeq
slice(s, i, j) ==
  IF i > Len(s) \/ j < i THEN "" ELSE SubSeq(s, i, IF j > Len(s) THEN Len(s) ELSE j)

Digits == {"0", "1", "2", "3", "4", "5", "6", "7", "8", "9"}

Upper == {"A","B","C","D","E","F","G","H","I","J","K","L","M",
          "N","O","P","Q","R","S","T","U","V","W","X","Y","Z"}

Letters == Upper \cup {"a","b","c","d","e","f","g","h","i","j","k","l","m",
                       "n","o","p","q","r","s","t","u","v","w","x","y","z"}

\* \w of the re module, on ASCII
WordChars == Letters \cup Digits \cup {"_"}

\* \s of the re module, on the characters the inputs use
Whitespace == {" "}

LowerChar(c) ==
  CASE c = "A" -> "a" [] c = "B" -> "b" [] c = "C" -> "c" [] c = "D" -> "d"
    [] c = "E" -> "e" [] c = "F" -> "f" [] c = "G" -> "g" [] c = "H" -> "h"
    [] c = "I" -> "i" [] c = "J" -> "j" [] c = "K" -> "k" [] c = "L" -> "l"
    [] c = "M" -> "m" [] c = "N" -> "n" [] c = "O" -> "o" [] c = "P" -> "p"
    [] c = "Q" -> "q" [] c = "R" -> "r" [] c = "S" -> "s" [] c = "T" -> "t"
    [] c = "U" -> "u" [] c = "V" -> "v" [] c = "W" -> "w" [] c = "X" -> "x"
    [] c = "Y" -> "y" [] c = "Z" -> "z" [] OTHER -> c

\* str.lower()
RECURSIVE lower(_)
lower(s) ==
  IF s = "" THEN "" ELSE LowerChar(Ch(s, 1)) \o lower(SubSeq(s, 2, Len(s)))

\* `p in t` on strings
contains(t, p) ==
  \E i \in 1..(Len(t) - Len(p) + 1) : SubSeq(t, i, i + Len(p) - 1) = p

\* str.strip()
RECURSIVE lstrip(_)
lstrip(s) ==
  IF s # "" /\ Ch(s, 1) \in Whitespace THEN lstrip(SubSeq(s, 2, Len(s))) ELSE s

RECURSIVE rstrip(_)
rstrip(s) ==
  IF s # "" /\ Ch(s, Len(s)) \in Whitespace
    THEN rstrip(SubSeq(s, 1, Len(s) - 1)) ELSE s

strip(s) == lstrip(rstrip(s))

\* len(s.split()): the number of maximal runs of non-whitespace
RECURSIVE word_count(_)
word_count(s) ==
  IF s = "" THEN 0
  ELSE IF Ch(s, 1) \in Whitespace THEN word_count(SubSeq(s, 2, Len(s)))
  ELSE IF Len(s) = 1 \/ Ch(s, 2) \in Whitespace
         THEN 1 + word_count(SubSeq(s, 2, Len(s)))
         ELSE word_count(SubSeq(s, 2, Len(s)))

\* re.sub(r'\s+', ' ', s)
RECURSIVE collapse_whitespace(_)
collapse_whitespace(s) ==
  IF s = "" THEN ""
  ELSE IF Ch(s, 1) \in Whitespace
         THEN " " \o collapse_whitespace(lstrip(s))
         ELSE Ch(s, 1) \o collapse_whitespace(SubSeq(s, 2, Len(s)))

\* re.sub(pat, rep, s, flags=re.IGNORECASE) for a literal, lowercase pat
RECURSIVE sub_ignorecase(_, _, _)
sub_ignorecase(pat, rep, s) ==
  IF Len(s) < Len(pat) THEN s
  ELSE IF lower(SubSeq(s, 1, Len(pat))) = pat
         THEN rep \o sub_ignorecase(pat, rep, SubSeq(s, Len(pat) + 1, Len(s)))
         ELSE Ch(s, 1) \o sub_ignorecase(pat, rep, SubSeq(s, 2, Len(s)))

\* re.search(r'\bw\b', s, re.IGNORECASE) for a literal w of word characters
\* and single spaces
search_word(s, w) ==
  \E i \in 1..(Len(s) - Len(w) + 1) :
    /\ lower(SubSeq(s, i, i + Len(w) - 1)) = w
    /\ (i = 1 \/ Ch(s, i - 1) \notin WordChars)
    /\ (i + Len(w) - 1 = Len(s) \/ Ch(s, i + Len(w)) \notin WordChars)

-----------------------------------------------------------------------------
(* EnhancedNLPProcessor: the pattern table, in table order                 *)

intent_patterns ==
  << [name |-> "greeting", patterns |-> <<
       "hello", "hi", "hey", "good morning", "good afternoon", "good evening", "howdy",
       "greetings", "what's up", "how are you", "nice to meet you", "hiya", "yo", "sup",
       "g'day"
     >>],
     [name |-> "help", patterns |-> <<
       "help", "assistance", "support", "guide", "how to", "can you help", "i need help",
       "what can you do", "instructions", "tutorial", "explain", "show me", "assist me",
       "guidance"
     >>],
     [name |-> "conversation", patterns |-> <<
       "tell me about", "what do you think", "do you know", "opinion", "chat", "talk",
       "discuss", "conversation", "let's talk", "i want to know", "explain to me",
       "what is", "how does"
     >>],
     [name |-> "file_management", patterns |-> <<
       "file", "folder", "directory", "organize files", "create folder", "delete file",
       "move file", "copy file", "list files", "find file", "search files", "manage files",
       "file system", "browse files", "open file", "save file", "rename file",
       "file operations"
     >>],
     [name |-> "system_control", patterns |-> <<
       "system info", "system information", "computer info", "hardware", "memory", "cpu",
       "disk space", "run command", "execute", "system command", "check system",
       "performance", "processes", "restart", "reboot", "shutdown system", "system status"
     >>],
     [name |-> "calculation", patterns |-> <<
       "calculate", "compute", "math", "add", "subtract", "multiply", "divide",
       "percentage", "what is", "how much", "sum", "total", "equation", "formula",
       "arithmetic", "numbers", "plus", "minus", "times", "divided by", "equals", "result"
     >>],
     [name |-> "weather", patterns |-> <<
       "weather", "temperature", "forecast", "climate", "rain", "sunny", "cloudy",
       "what's the weather", "weather today", "weather report", "will it rain",
       "temperature today"
     >>],
     [name |-> "time_date", patterns |-> <<
       "time", "date", "today", "now", "current time", "what time", "what date", "calendar",
       "when", "schedule", "clock", "today's date", "current date", "what day"
     >>],
     [name |-> "shutdown", patterns |-> <<
       "shutdown", "exit", "quit", "stop", "close", "goodbye", "bye", "terminate", "end",
       "turn off", "power off"
     >>],
     [name |-> "productivity", patterns |-> <<
       "remind me", "schedule", "appointment", "task", "todo", "note", "remember",
       "notification", "calendar event", "meeting", "deadline", "priority"
     >>],
     [name |-> "web_search", patterns |-> <<
       "search", "look up", "find information", "google", "web search", "internet search",
       "research", "lookup", "browse", "investigate"
     >>]
  >>

\* the intent vocabulary: list(self.intent_patterns.keys())
possible_intents == {intent_patterns[k].name : k \in 1..Len(intent_patterns)}

\* _clean_text: whitespace collapsed and stripped, quotation marks normalised
\* (the identity on ASCII), contractions expanded in dict order
contractions ==
  << <<"won't", "will not">>, <<"can't", "cannot">>, <<"n't", " not">>,
     <<"'re", " are">>, <<"'ve", " have">>, <<"'ll", " will">>,
     <<"'d", " would">>, <<"'m", " am">> >>

RECURSIVE expand_contractions(_, _)
expand_contractions(s, k) ==
  IF k > Len(contractions) THEN s
  ELSE expand_contractions(
         sub_ignorecase(contractions[k][1], contractions[k][2], s), k + 1)

clean_text(text) == expand_contractions(strip(collapse_whitespace(text)), 1)

-----------------------------------------------------------------------------
(* Entities                                                                *)

\* the end (exclusive) of the maximal run of characters of set cls from i
RECURSIVE run_end(_, _, _)
run_end(s, i, cls) ==
  IF i <= Len(s) /\ Ch(s, i) \in cls THEN run_end(s, i + 1, cls) ELSE i

\* the end (exclusive) of a numeric literal \d+(\.\d+)? that starts at i
number_end(s, i) ==
  LET e1 == run_end(s, i, Digits)
      e2 == IF e1 <= Len(s) /\ Ch(s, e1) = "." THEN run_end(s, e1 + 1, Digits)
            ELSE e1
  IN  IF e2 > e1 + 1 THEN e2 ELSE e1

Entity(text, label, start, end, confidence) ==
  [text |-> text, label |-> label, start |-> start, end |-> end,
   confidence |-> confidence]

\* doc.ents of the external tagger, as far as the pipeline depends on it:
\* every numeric literal of the text is a CARDINAL entity, in text order
\* (start and end are 0-based character offsets, end exclusive)
RECURSIVE tagger_ents(_, _)
tagger_ents(text, i) ==
  IF i > Len(text) THEN <<>>
  ELSE IF Ch(text, i) \in Digits /\ (i = 1 \/ Ch(text, i - 1) \notin WordChars)
    THEN LET e == number_end(text, i)
         IN  IF e > Len(text) \/ Ch(text, e) \notin WordChars
               THEN <<Entity(SubSeq(text, i, e - 1), "CARDINAL", i - 1, e - 1, 8)>>
                      \o tagger_ents(text, e)
               ELSE tagger_ents(text, run_end(text, e, WordChars))
    ELSE tagger_ents(text, i + 1)

\* str.upper()
UpperChar(c) ==
  CASE c = "a" -> "A" [] c = "b" -> "B" [] c = "c" -> "C" [] c = "d" -> "D"
    [] c = "e" -> "E" [] c = "f" -> "F" [] c = "g" -> "G" [] c = "h" -> "H"
    [] c = "i" -> "I" [] c = "j" -> "J" [] c = "k" -> "K" [] c = "l" -> "L"
    [] c = "m" -> "M" [] c = "n" -> "N" [] c = "o" -> "O" [] c = "p" -> "P"
    [] c = "q" -> "Q" [] c = "r" -> "R" [] c = "s" -> "S" [] c = "t" -> "T"
    [] c = "u" -> "U" [] c = "v" -> "V" [] c = "w" -> "W" [] c = "x" -> "X"
    [] c = "y" -> "Y" [] c = "z" -> "Z" [] OTHER -> c

RECURSIVE upper(_)
upper(s) ==
  IF s = "" THEN "" ELSE UpperChar(Ch(s, 1)) \o upper(SubSeq(s, 2, Len(s)))

\* str.find: the 0-based index of the first occurrence of p in t, or -1
RECURSIVE find_from(_, _, _)
find_from(t, p, i) ==
  IF i + Len(p) - 1 > Len(t) THEN -1
  ELSE IF SubSeq(t, i, i + Len(p) - 1) = p THEN i - 1
  ELSE find_from(t, p, i + 1)

find(t, p) == find_from(t, p, 1)

\* the entities with the confidence given
with_confidence(entities, confidence) ==
  [k \in 1..Len(entities) |-> [entities[k] EXCEPT !.confidence = confidence]]

\* any(e.text.lower() == entity_text.lower() for e in entities)
collected(entities, entity_text) ==
  \E k \in 1..Len(entities) : lower(entities[k].text) = lower(entity_text)

\* the Entity appended for a text the remote model extracted
gpt_entity(text, entity_type, entity_text, start) ==
  Entity(entity_text, upper(entity_type), start, start + Len(entity_text), 9)

\* "for entity_text in entity_list", from its j-th element on
RECURSIVE merge_entity_list(_, _, _, _, _)
merge_entity_list(text, entities, entity_type, entity_list, j) ==
  IF j > Len(entity_list) THEN entities
  ELSE merge_entity_list(
         text,
         IF collected(entities, entity_list[j]) THEN entities
         ELSE Append(entities,
                     gpt_entity(text, entity_type, entity_list[j],
                                find(lower(text), lower(entity_list[j])))),
         entity_type, entity_list, j + 1)

\* "for entity_type, entity_list in gpt_entities.items()", from item k on
RECURSIVE merge_gpt_entities(_, _, _, _)
merge_gpt_entities(text, entities, items, k) ==
  IF k > Len(items) THEN entities
  ELSE merge_gpt_entities(
         text,
         merge_entity_list(text, entities, items[k].type, items[k].texts, 1),
         items, k + 1)

\* what extract_entities_advanced returned: the dict with the items given, in
\* the order of the dict, or a JSON value that is no object ("list"); and
\* with the kinds "raises", "malformed" and "json", a reply of the remote
\* model to the request: the transport raises, the content is no JSON, or it
\* is the JSON object with the items given
Extracted(kind, items) == [kind |-> kind, items |-> items]

\* extract_entities_advanced that takes what is no JSON for a dict of the text
extract_entities_advanced_unparsed(reply) ==
  CASE reply.kind = "raises" -> Extracted("dict", <<>>)
    [] reply.kind = "malformed" ->
         Extracted("dict", <<[type |-> "text", texts |-> <<"<content>">>]>>)
    [] OTHER -> Extracted(IF reply.kind = "json" THEN "dict" ELSE reply.kind,
                          reply.items)

\* extract_entities_advanced of an available client: json.loads(content), and
\* {} under either except clause
extract_entities_advanced(reply) ==
  CASE reply.kind = "raises" -> Extracted("dict", <<>>)
    [] reply.kind = "malformed" -> Extracted("dict", <<>>)
    [] OTHER -> Extracted(IF reply.kind = "json" THEN "dict" ELSE reply.kind,
                          reply.items)

\* _extract_entities_enhanced of nlp.py: the exception that leaves it ("" if
\* none) and the list it returns; the tagger's entities come first, as they
\* are, and an exception of the remote extraction is caught
extract_entities_enhanced(text, tagger, remote_available, gpt_entities) ==
  IF tagger = "fails" THEN [raised |-> "tagger failed", entities |-> <<>>]
  ELSE IF remote_available /\ gpt_entities.kind = "dict"
    THEN [raised |-> "",
          entities |-> merge_gpt_entities(text, tagger_ents(text, 1),
                                          gpt_entities.items, 1)]
  ELSE [raised |-> "", entities |-> tagger_ents(text, 1)]

\* the end (exclusive) of the match of \b\d+(?:\.\d+)?\b at i, 0 if none:
\* with the fraction, else without it
number_match_end(s, i) ==
  LET e1 == run_end(s, i, Digits)
      e2 == IF e1 <= Len(s) /\ Ch(s, e1) = "." THEN run_end(s, e1 + 1, Digits)
            ELSE e1
  IN  IF e2 > e1 + 1 /\ (e2 > Len(s) \/ Ch(s, e2) \notin WordChars) THEN e2
      ELSE IF e1 > Len(s) \/ Ch(s, e1) \notin WordChars THEN e1
      ELSE 0

\* re.finditer(number_pattern, text) from i on, as NUMBER entities
RECURSIVE number_entities(_, _), number_entities_at(_, _, _)
number_entities(text, i) ==
  IF i > Len(text) THEN <<>>
  ELSE IF Ch(text, i) \in Digits /\ (i = 1 \/ Ch(text, i - 1) \notin WordChars)
    THEN number_entities_at(text, i, number_match_end(text, i))
  ELSE number_entities(text, i + 1)

number_entities_at(text, i, e) ==
  IF e = 0 THEN number_entities(text, i + 1)
  ELSE <<Entity(SubSeq(text, i, e - 1), "NUMBER", i - 1, e - 1, 9)>>
         \o number_entities(text, e)

\* the characters of a path segment: [^\s<>:"|?*\\\/]
SegmentExcluded == Whitespace \cup {"<", ">", ":", "\"", "|", "?", "*", "\\", "/"}

RECURSIVE segment_end(_, _)
segment_end(s, i) ==
  IF i <= Len(s) /\ Ch(s, i) \notin SegmentExcluded THEN segment_end(s, i + 1)
  ELSE i

\* the last "." in s[i..r-1] that a letter or a digit follows, 0 if none
RECURSIVE last_extension(_, _, _)
last_extension(s, i, d) ==
  IF d < i THEN 0
  ELSE IF Ch(s, d) = "." /\ d + 1 <= Len(s) /\ Ch(s, d + 1) \in Letters \cup Digits
    THEN d
  ELSE last_extension(s, i, d - 1)

\* re.finditer(file_pattern, text) from i on, as FILE_PATH entities, for a
\* text without ":", "/" and "\": a match is a run of segment characters up
\* to its last "." that a letter or a digit follows, and the letters and
\* digits after it
RECURSIVE file_entities(_, _), file_entities_at(_, _, _)
file_entities(text, i) ==
  IF i > Len(text) THEN <<>>
  ELSE file_entities_at(text, i,
                        last_extension(text, i, segment_end(text, i) - 1))

file_entities_at(text, i, d) ==
  IF d = 0 THEN file_entities(text, i + 1)
  ELSE <<Entity(SubSeq(text, i, run_end(text, d + 1, Letters \cup Digits) - 1),
                "FILE_PATH", i - 1,
                run_end(text, d + 1, Letters \cup Digits) - 1, 8)>>
         \o file_entities(text, run_end(text, d + 1, Letters \cup Digits))

\* _extract_custom_entities of nlp_engine.py
extract_custom_entities(text) ==
  number_entities(text, 1) \o file_entities(text, 1)

\* _extract_entities of nlp_engine.py: the tagger's entities with confidence
\* 1.0, then the custom ones; an exception of the tagger is caught
extract_entities(text, tagger) ==
  IF tagger = "fails" THEN <<>>
  ELSE with_confidence(tagger_ents(text, 1), 10) \o extract_custom_entities(text)

-----------------------------------------------------------------------------
(* _extract_parameters_enhanced                                            *)

\* a parameters dict; a key the code leaves out carries the default that
\* every reader of the dict passes to .get()
NoParams ==
  [numbers |-> <<>>, operators |-> <<>>, expression |-> "", original_text |-> "",
   actions |-> <<>>, file_paths |-> <<>>, commands |-> <<>>,
   time_references |-> <<>>, query_type |-> "", query |-> "", text |-> ""]

\* entity_texts that knows the label NUMBER only
RECURSIVE entity_texts_number_only(_, _)
entity_texts_number_only(entities, labels) ==
  IF entities = <<>> THEN <<>>
  ELSE (IF Head(entities).label \in labels \cap {"NUMBER"}
          THEN <<Head(entities).text>> ELSE <<>>)
         \o entity_texts_number_only(Tail(entities), labels)

\* [e.text for e in entities if e.label in labels]
RECURSIVE entity_texts(_, _)
entity_texts(entities, labels) ==
  IF entities = <<>> THEN <<>>
  ELSE (IF Head(entities).label \in labels THEN <<Head(entities).text>> ELSE <<>>)
         \o entity_texts(Tail(entities), labels)

\* one entry of a name -> regex-list table: the substrings searched for
\* literally and the words searched for between word boundaries
operator_patterns ==
  << [name |-> "add", literal |-> {"+"}, words |-> {"add", "plus", "sum"}],
     [name |-> "subtract", literal |-> {"-"},
      words |-> {"subtract", "minus", "take away"}],
     [name |-> "multiply", literal |-> {"*"}, words |-> {"multiply", "times", "of"}],
     [name |-> "divide", literal |-> {"/"}, words |-> {"divide", "divided by", "into"}],
     [name |-> "percentage", literal |-> {"%"}, words |-> {"percent", "percentage"}] >>

action_patterns ==
  << [name |-> "create", literal |-> {}, words |-> {"create", "make", "new", "add"}],
     [name |-> "delete", literal |-> {}, words |-> {"delete", "remove", "rm", "erase"}],
     [name |-> "move", literal |-> {}, words |-> {"move", "mv", "relocate", "transfer"}],
     [name |-> "copy", literal |-> {}, words |-> {"copy", "cp", "duplicate", "clone"}],
     [name |-> "list", literal |-> {}, words |-> {"list", "ls", "show", "display"}],
     [name |-> "search", literal |-> {},
      words |-> {"find", "search", "locate", "look for"}],
     [name |-> "organize", literal |-> {},
      words |-> {"organize", "sort", "arrange", "tidy"}] >>

command_patterns ==
  << [name |-> "info", literal |-> {},
      words |-> {"info", "information", "status", "details"}],
     [name |-> "performance", literal |-> {},
      words |-> {"performance", "cpu", "memory", "ram"}],
     [name |-> "processes", literal |-> {},
      words |-> {"process", "task", "running", "service"}],
     [name |-> "disk", literal |-> {}, words |-> {"disk", "storage", "space", "drive"}] >>

\* the names of the table whose patterns are found in the text, in table order
RECURSIVE matched_names(_, _, _)
matched_names(table, text, k) ==
  IF k > Len(table) THEN <<>>
  ELSE (IF \/ \E l \in table[k].literal : contains(text, l)
           \/ \E w \in table[k].words : search_word(text, w)
          THEN <<table[k].name>> ELSE <<>>)
         \o matched_names(table, text, k + 1)

\* the character class [\d\+\*\/\(\)\.\s-] of the math patterns
MathChars == Digits \cup {"+", "*", "/", "(", ")", ".", "-"} \cup Whitespace

\* re.search of [\d\+\*\/\(\)\.\s-]+(?:[=\s]*[\d\.]+)? : group(0), or None ("")
\* with found = FALSE
math_pattern_1(text) ==
  LET starts == {i \in 1..Len(text) : Ch(text, i) \in MathChars}
  IN  IF starts = {} THEN [found |-> FALSE, text |-> ""]
      ELSE LET i == CHOOSE j \in starts : \A k \in starts : j <= k
               e == run_end(text, i, MathChars)
               q == run_end(text, e, {"="} \cup Whitespace)
               t == run_end(text, q, Digits \cup {"."})
           IN  [found |-> TRUE,
                text |-> SubSeq(text, i, (IF t > q THEN t ELSE e) - 1)]

\* the end (exclusive) of \d+\.?\d* from i, or 0 when no digit is at i
loose_number_end(s, i) ==
  IF i > Len(s) \/ Ch(s, i) \notin Digits THEN 0
  ELSE LET e1 == run_end(s, i, Digits)
           e2 == IF e1 <= Len(s) /\ Ch(s, e1) = "." THEN e1 + 1 ELSE e1
       IN  run_end(s, e2, Digits)

\* the end (exclusive) of \d+\.?\d*\s*[\+\*\/-]\s*\d+\.?\d* from i, or 0
binary_expression_end(s, i) ==
  LET e1 == loose_number_end(s, i)
      e2 == run_end(s, e1, Whitespace)
      e3 == run_end(s, e2 + 1, Whitespace)
  IN  IF e1 = 0 \/ e2 > Len(s) \/ Ch(s, e2) \notin {"+", "*", "/", "-"} THEN 0
      ELSE loose_number_end(s, e3)

\* re.search of \d+\.?\d*\s*[\+\*\/-]\s*\d+\.?\d*
math_pattern_2(text) ==
  LET starts == {i \in 1..Len(text) : binary_expression_end(text, i) > 0}
  IN  IF starts = {} THEN [found |-> FALSE, text |-> ""]
      ELSE LET i == CHOOSE j \in starts : \A k \in starts : j <= k
           IN  [found |-> TRUE,
                text |-> SubSeq(text, i, binary_expression_end(text, i) - 1)]

\* the end (exclusive) of what\s+is|calculate|compute from i, or 0
keyword_end(s, i) ==
  LET w == run_end(s, i + 4, Whitespace)
  IN  IF /\ lower(slice(s, i, i + 3)) = "what"
         /\ w > i + 4
         /\ lower(slice(s, w, w + 1)) = "is"
        THEN w + 2
      ELSE IF lower(slice(s, i, i + 8)) = "calculate" THEN i + 9
      ELSE IF lower(slice(s, i, i + 6)) = "compute" THEN i + 7
      ELSE 0

\* the span <<from, to>> of group(1) of
\* (?:what\s+is|calculate|compute)\s+([\d\+\*\/\(\)\.\s-]+) matched at i, or <<0, 0>>
keyword_group(s, i) ==
  LET k == keyword_end(s, i)
      w == run_end(s, k, Whitespace)
      e == run_end(s, w, MathChars)
  IN  IF k = 0 \/ w = k THEN <<0, 0>>
      ELSE IF e > w THEN <<w, e - 1>>
      ELSE IF w > k + 1 THEN <<w - 1, w - 1>>
      ELSE <<0, 0>>

\* re.search of the third math pattern: group(1)
math_pattern_3(text) ==
  LET starts == {i \in 1..Len(text) : keyword_group(text, i) # <<0, 0>>}
  IN  IF starts = {} THEN [found |-> FALSE, text |-> ""]
      ELSE LET i == CHOOSE j \in starts : \A k \in starts : j <= k
               g == keyword_group(text, i)
           IN  [found |-> TRUE, text |-> SubSeq(text, g[1], g[2])]

\* the loop over math_patterns: the first pattern whose match, stripped, is
\* not empty sets parameters["expression"] (the re.sub of the keywords leaves
\* a match of these patterns as it is: it holds no letter)
first_expression(m1, m2, m3) ==
  IF m1 # "" THEN m1 ELSE IF m2 # "" THEN m2 ELSE m3

extract_expression(text) ==
  first_expression(strip(math_pattern_1(text).text),
                   strip(math_pattern_2(text).text),
                   strip(math_pattern_3(text).text))

extract_parameters_enhanced(intent, text, entities) ==
  CASE intent = "calculation" ->
         [NoParams EXCEPT
            !.numbers = entity_texts(entities, {"NUMBER", "CARDINAL"}),
            !.operators = matched_names(operator_patterns, text, 1),
            !.expression = extract_expression(text)]
    [] intent = "file_management" ->
         [NoParams EXCEPT
            !.file_paths = entity_texts(entities, {"FILE_PATH", "ORG"}),
            !.actions = matched_names(action_patterns, text, 1)]
    [] intent = "system_control" ->
         [NoParams EXCEPT !.commands = matched_names(command_patterns, text, 1)]
    [] intent = "time_date" ->
         [NoParams EXCEPT
            !.time_references = entity_texts(entities, {"DATE", "TIME"}),
            !.query_type =
               IF \E i \in 1..Len(text) :
                    /\ lower(slice(text, i, i + 3)) = "what"
                    /\ (i = 1 \/ Ch(text, i - 1) \notin WordChars)
                    /\ LET w == run_end(text, i + 4, Whitespace)
                       IN  /\ w > i + 4
                           /\ lower(slice(text, w, w + 3)) = "time"
                           /\ (w + 4 > Len(text) \/ Ch(text, w + 4) \notin WordChars)
                 THEN "current_time"
               ELSE IF \E i \in 1..Len(text) :
                    /\ lower(slice(text, i, i + 3)) = "what"
                    /\ (i = 1 \/ Ch(text, i - 1) \notin WordChars)
                    /\ LET w == run_end(text, i + 4, Whitespace)
                       IN  /\ w > i + 4
                           /\ lower(slice(text, w, w + 3)) = "date"
                           /\ (w + 4 > Len(text) \/ Ch(text, w + 4) \notin WordChars)
                 THEN "current_date"
               ELSE "general"]
    [] OTHER -> NoParams

-----------------------------------------------------------------------------
(* _classify_intent_local                                                  *)

Intent(name, confidence, entities, parameters, reasoning, source) ==
  [name |-> name, confidence |-> confidence, entities |-> entities,
   parameters |-> parameters, reasoning |-> reasoning, source |-> source]

\* None where an Optional[Intent] is expected
NoIntent == Intent("", 0, <<>>, NoParams, "", "none")

\* the weight without the number of words
pattern_weight_flat(pattern) == 10

\* pattern_weight = len(pattern.split()) * 0.2 + 0.8, in tenths
pattern_weight(pattern) == word_count(pattern) * 2 + 8

\* the inner loop: the sum of the weights of the patterns found in the text
RECURSIVE intent_score(_, _, _)
intent_score(text_lower, patterns, k) ==
  IF k > Len(patterns) THEN 0
  ELSE (IF contains(text_lower, lower(patterns[k]))
          THEN pattern_weight(patterns[k]) ELSE 0)
         + intent_score(text_lower, patterns, k + 1)

\* matched_patterns is not empty
has_match(text_lower, patterns) ==
  \E k \in 1..Len(patterns) : contains(text_lower, lower(patterns[k]))

\* a test that lets a later intent with the same score replace the best one
beats_or_ties(matched, score, best_score) == matched /\ score >= best_score

\* whether the intent examined replaces the best one so far
beats(matched, score, best_score) == matched /\ score > best_score

\* the outer loop from table entry k on, with the best intent so far
\* ("" is None); returns <<best_intent, best_score>>
RECURSIVE best_match(_, _, _, _)
best_match(text_lower, k, best_intent, best_score) ==
  IF k > Len(intent_patterns) THEN <<best_intent, best_score>>
  ELSE LET score == intent_score(text_lower, intent_patterns[k].patterns, 1)
       IN  IF beats(has_match(text_lower, intent_patterns[k].patterns),
                    score, best_score)
             THEN best_match(text_lower, k + 1, intent_patterns[k].name, score)
             ELSE best_match(text_lower, k + 1, best_intent, best_score)

\* the local floor: best_score > 0.5
LocalFloor == 5

\* the test after the loop left out
accepted_always(best_intent, best_score) == TRUE

accepted_locally(best_intent, best_score) ==
  best_intent # "" /\ best_score > LocalFloor

\* the Intent built from the best match, or None
local_intent(text, entities, best) ==
  IF accepted_locally(best[1], best[2])
    THEN Intent(best[1], best[2], entities,
                extract_parameters_enhanced(best[1], text, entities),
                "", "local")
    ELSE NoIntent

classify_intent_local(text, entities) ==
  local_intent(text, entities, best_match(lower(text), 1, "", 0))

\* _classify_intent_local that answers with the intent of the turn before
\* where no pattern matches
classify_in_context_remembering(text, entities, context) ==
  IF classify_intent_local(text, entities).source = "none" /\ context # "<None>"
    THEN Intent(context, LocalFloor + 1, entities, NoParams, "", "local")
    ELSE classify_intent_local(text, entities)

\* _classify_intent_local called on a processor while the conversation
\* context of its agent is as given: the code reads the text, the entities
\* and the pattern table, and nothing else
classify_in_context(text, entities, context) ==
  classify_intent_local(text, entities)

-----------------------------------------------------------------------------
(* Python numbers: int and float, as exact rationals n/d with d > 0 in     *)
(* lowest terms; exact = FALSE marks a float value this arithmetic does    *)
(* not follow (a root, or a power beyond MaxExponent)                      *)

Abs(a) == IF a < 0 THEN -a ELSE a

RECURSIVE Gcd(_, _)
Gcd(a, b) == IF b = 0 THEN a ELSE Gcd(b, a % b)

Num(n, d, isfloat) ==
  LET g == Gcd(Abs(n), d)
  IN  [n |-> n \div g, d |-> d \div g, isfloat |-> isfloat, exact |-> TRUE]

PyInt(n) == Num(n, 1, FALSE)

Inexact == [n |-> 0, d |-> 1, isfloat |-> TRUE, exact |-> FALSE]

to_float(a) == [a EXCEPT !.isfloat = TRUE]

\* the largest exponent and the largest base ** is followed exactly for
MaxExponent == 6
MaxPowBase == 10

RECURSIVE IntPow(_, _)
IntPow(b, e) == IF e = 0 THEN 1 ELSE b * IntPow(b, e - 1)

\* the decimal digits of a natural number
RECURSIVE nat_str(_)
nat_str(n) ==
  IF n < 10 THEN Ch("0123456789", n + 1)
  ELSE nat_str(n \div 10) \o Ch("0123456789", (n % 10) + 1)

\* at most k decimal places of r/d (r < d), trailing zeros left out
RECURSIVE fraction_digits(_, _, _)
fraction_digits(r, d, k) ==
  IF r = 0 \/ k = 0 THEN ""
  ELSE Ch("0123456789", ((r * 10) \div d) + 1)
         \o fraction_digits((r * 10) % d, d, k - 1)

\* the decimal places repr() of a float shows at most
ReprDigits == 16

\* str() of a number: an int in decimal, a float with at least one decimal
\* place (the expansion is cut, not rounded, after ReprDigits places)
num_str(a) ==
  IF a.n = 0 /\ ~a.isfloat /\ ~a.exact THEN "()"
  ELSE IF ~a.exact THEN "<float>"
  ELSE LET sign == IF a.n < 0 THEN "-" ELSE ""
           whole == Abs(a.n) \div a.d
           frac == fraction_digits(Abs(a.n) % a.d, a.d, ReprDigits)
       IN  IF ~a.isfloat THEN sign \o nat_str(whole)
           ELSE sign \o nat_str(whole) \o "." \o (IF frac = "" THEN "0" ELSE frac)

\* the value of a run of decimal digits
RECURSIVE digits_value(_)
digits_value(s) ==
  IF s = "" THEN 0
  ELSE digits_value(SubSeq(s, 1, Len(s) - 1)) * 10
         + (CHOOSE v \in 0..9 : Ch("0123456789", v + 1) = Ch(s, Len(s)))

\* the value of digits "." digits (either run may be empty, not both)
decimal_value(whole, frac, isfloat) ==
  Num(digits_value(whole) * IntPow(10, Len(frac)) + digits_value(frac),
      IntPow(10, Len(frac)), isfloat)

\* float(s) for s a str: [ok, val]; ok = FALSE is ValueError
py_float(s) ==
  LET t == strip(s)
      signed == t # "" /\ Ch(t, 1) \in {"+", "-"}
      u == IF signed THEN SubSeq(t, 2, Len(t)) ELSE t
      e1 == run_end(u, 1, Digits)
      dot == e1 <= Len(u) /\ Ch(u, e1) = "."
      e2 == IF dot THEN run_end(u, e1 + 1, Digits) ELSE e1
      whole == SubSeq(u, 1, e1 - 1)
      frac == IF dot THEN SubSeq(u, e1 + 1, e2 - 1) ELSE ""
      v == decimal_value(whole, frac, TRUE)
  IN  IF e2 = Len(u) + 1 /\ (whole # "" \/ frac # "")
        THEN [ok |-> TRUE,
              val |-> IF signed /\ Ch(t, 1) = "-" THEN Num(-v.n, v.d, TRUE) ELSE v]
        ELSE [ok |-> FALSE, val |-> Inexact]

num_add(a, b) == Num(a.n * b.d + b.n * a.d, a.d * b.d, a.isfloat \/ b.isfloat)
num_sub(a, b) == Num(a.n * b.d - b.n * a.d, a.d * b.d, a.isfloat \/ b.isfloat)
num_mul(a, b) == Num(a.n * b.n, a.d * b.d, a.isfloat \/ b.isfloat)
\* a / b for b # 0: always a float
num_div(a, b) ==
  IF b.n > 0 THEN Num(a.n * b.d, a.d * b.n, TRUE)
  ELSE Num(-(a.n * b.d), a.d * (-b.n), TRUE)
is_zero(a) == a.exact /\ a.n = 0

-----------------------------------------------------------------------------
(* eval() of an expression of digits, decimal points, parentheses,         *)
(* + - * / and whitespace: tokens, syntax tree, value                      *)

\* the empty tuple, the value of "()"
EmptyTuple == [n |-> 0, d |-> 1, isfloat |-> FALSE, exact |-> FALSE]

is_tuple(a) == a = EmptyTuple

Token(t, v) == [t |-> t, v |-> v]

\* the token that starts at i: [tok, next], tok.t = "error" for no token
token_at(s, i) ==
  LET c == Ch(s, i)
      e1 == run_end(s, i, Digits)
      dot == e1 <= Len(s) /\ Ch(s, e1) = "."
      e2 == IF dot THEN run_end(s, e1 + 1, Digits) ELSE e1
      whole == SubSeq(s, i, e1 - 1)
      frac == IF dot THEN SubSeq(s, e1 + 1, e2 - 1) ELSE ""
  IN  IF c \in Digits \/ (c = "." /\ e2 > i + 1)
        THEN IF dot
               THEN [tok |-> Token("num", decimal_value(whole, frac, TRUE)),
                     next |-> e2]
             ELSE IF Len(whole) > 1 /\ Ch(whole, 1) = "0" /\ digits_value(whole) # 0
               THEN [tok |-> Token("error", PyInt(0)), next |-> e1]
             ELSE [tok |-> Token("num", decimal_value(whole, "", FALSE)), next |-> e1]
      ELSE IF slice(s, i, i + 1) \in {"**", "//"}
        THEN [tok |-> Token(slice(s, i, i + 1), PyInt(0)), next |-> i + 2]
      ELSE IF c \in {"+", "-", "*", "/", "(", ")"}
        THEN [tok |-> Token(c, PyInt(0)), next |-> i + 1]
      ELSE [tok |-> Token("error", PyInt(0)), next |-> i + 1]

RECURSIVE tokenize(_, _)
tokenize(s, i) ==
  IF i > Len(s) THEN <<>>
  ELSE IF Ch(s, i) \in Whitespace THEN tokenize(s, i + 1)
  ELSE LET t == token_at(s, i) IN <<t.tok>> \o tokenize(s, t.next)

\* a parse: the tree and the position of the next token; ok = FALSE is
\* SyntaxError
Parsed(tree, pos) == [ok |-> TRUE, tree |-> tree, pos |-> pos]
NoParse == [ok |-> FALSE, tree |-> [op |-> "none"], pos |-> 0]

tok_is(toks, p, kinds) == p <= Len(toks) /\ toks[p].t \in kinds

\* a parenthesised expression e, closed at the ")" that follows it
closing(toks, e) ==
  IF e.ok /\ tok_is(toks, e.pos, {")"}) THEN Parsed(e.tree, e.pos + 1) ELSE NoParse

\* the node of a binary operator whose right operand was parsed as f
binary(op, left, f) ==
  IF f.ok THEN Parsed([op |-> op, l |-> left, r |-> f.tree], f.pos) ELSE NoParse

\* the node of a sign whose operand was parsed as f
unary(sign, f) ==
  IF f.ok THEN Parsed([op |-> "unary" \o sign, l |-> f.tree, r |-> f.tree], f.pos)
  ELSE NoParse

RECURSIVE parse_sum(_, _), sum_rest(_, _, _), sum_more(_, _), parse_term(_, _),
          term_rest(_, _, _), term_more(_, _), parse_factor(_, _),
          parse_power(_, _), power_rest(_, _), parse_primary(_, _),
          primary_rest(_, _), call_rest(_, _, _), call_more(_, _, _),
          parse_atom(_, _)

\* atom: NUMBER | "(" ")" | "(" sum ")"
parse_atom(toks, p) ==
  IF tok_is(toks, p, {"num"}) THEN Parsed([op |-> "num", v |-> toks[p].v], p + 1)
  ELSE IF tok_is(toks, p, {"("})
    THEN IF tok_is(toks, p + 1, {")"}) THEN Parsed([op |-> "tuple"], p + 2)
         ELSE closing(toks, parse_sum(toks, p + 1))
  ELSE NoParse

\* primary: atom ("(" [sum] ")")*
call_more(toks, f, e) ==
  IF e.ok THEN call_rest(toks, [op |-> "call", l |-> f, r |-> e.tree], e.pos)
  ELSE NoParse

call_rest(toks, f, p) ==
  IF ~tok_is(toks, p, {"("}) THEN Parsed(f, p)
  ELSE IF tok_is(toks, p + 1, {")"})
    THEN call_rest(toks, [op |-> "call", l |-> f, r |-> [op |-> "tuple"]], p + 2)
  ELSE call_more(toks, f, closing(toks, parse_sum(toks, p + 1)))

primary_rest(toks, a) ==
  IF a.ok THEN call_rest(toks, a.tree, a.pos) ELSE NoParse

parse_primary(toks, p) == primary_rest(toks, parse_atom(toks, p))

\* power: primary ["**" factor]
power_rest(toks, a) ==
  IF ~a.ok THEN NoParse
  ELSE IF tok_is(toks, a.pos, {"**"})
    THEN binary("**", a.tree, parse_factor(toks, a.pos + 1))
  ELSE a

parse_power(toks, p) == power_rest(toks, parse_primary(toks, p))

\* factor: ("+" | "-") factor | power
parse_factor(toks, p) ==
  IF tok_is(toks, p, {"+", "-"}) THEN unary(toks[p].t, parse_factor(toks, p + 1))
  ELSE parse_power(toks, p)

\* term: factor (("*" | "/" | "//") factor)*
term_more(toks, f) ==
  IF f.ok THEN term_rest(toks, f.tree, f.pos) ELSE NoParse

term_rest(toks, left, p) ==
  IF ~tok_is(toks, p, {"*", "/", "//"}) THEN Parsed(left, p)
  ELSE term_more(toks, binary(toks[p].t, left, parse_factor(toks, p + 1)))

parse_term(toks, p) == term_more(toks, parse_factor(toks, p))

\* sum: term (("+" | "-") term)*
sum_more(toks, t) ==
  IF t.ok THEN sum_rest(toks, t.tree, t.pos) ELSE NoParse

sum_rest(toks, left, p) ==
  IF ~tok_is(toks, p, {"+", "-"}) THEN Parsed(left, p)
  ELSE sum_more(toks, binary(toks[p].t, left, parse_term(toks, p + 1)))

parse_sum(toks, p) == sum_more(toks, parse_term(toks, p))

\* the whole token list is one expression
whole(toks, e) ==
  IF ~tok_is(toks, 1, {"error"}) /\ e.ok /\ e.pos = Len(toks) + 1
       /\ \A k \in 1..Len(toks) : toks[k].t # "error"
    THEN e ELSE NoParse

parse_expression(toks) == whole(toks, parse_sum(toks, 1))

\* the outcome of an evaluation: a value, or the text of the exception
Value(v) == [err |-> "", val |-> v]
Raised(msg) == [err |-> msg, val |-> PyInt(0)]

\* floor(a / b) for b # 0
num_floordiv(a, b) ==
  LET q == num_div(a, b)
      fl == IF q.n >= 0 \/ q.n % q.d = 0 THEN q.n \div q.d
            ELSE -((-q.n) \div q.d) - 1
  IN  Num(fl, 1, a.isfloat \/ b.isfloat)

\* a ** b
num_pow(a, b) ==
  IF b.d # 1 THEN Value(Inexact)
  ELSE IF b.n >= 0
    THEN IF b.n <= MaxExponent /\ Abs(a.n) <= MaxPowBase /\ a.d <= MaxPowBase
           THEN Value(Num(IntPow(a.n, b.n), IntPow(a.d, b.n), a.isfloat \/ b.isfloat))
           ELSE Value(Inexact)
  ELSE IF -b.n <= MaxExponent /\ Abs(a.n) <= MaxPowBase /\ a.d <= MaxPowBase
    THEN LET k == -b.n
             sgn == IF a.n < 0 /\ k % 2 = 1 THEN -1 ELSE 1
         IN  Value(Num(sgn * IntPow(a.d, k), IntPow(Abs(a.n), k), TRUE))
  ELSE Value(Inexact)

\* one binary operator on two values
apply_binary(op, a, b) ==
  IF is_tuple(a) \/ is_tuple(b)
    THEN IF \/ op = "+" /\ is_tuple(a) /\ is_tuple(b)
            \/ op = "*" /\ is_tuple(a) /\ ~is_tuple(b) /\ ~b.isfloat
            \/ op = "*" /\ is_tuple(b) /\ ~is_tuple(a) /\ ~a.isfloat
           THEN Value(EmptyTuple)
           ELSE Raised("unsupported operand type(s) for " \o op)
  ELSE IF op \in {"/", "//"} /\ is_zero(b)
    THEN Raised(IF op = "/"
                  THEN (IF a.isfloat \/ b.isfloat THEN "float division by zero"
                        ELSE "division by zero")
                  ELSE (IF a.isfloat \/ b.isfloat THEN "float floor division by zero"
                        ELSE "integer division or modulo by zero"))
  ELSE IF op = "**" /\ is_zero(a) /\ b.exact /\ b.n < 0
    THEN Raised("0.0 cannot be raised to a negative power")
  ELSE IF ~a.exact \/ ~b.exact THEN Value(Inexact)
  ELSE CASE op = "+" -> Value(num_add(a, b))
         [] op = "-" -> Value(num_sub(a, b))
         [] op = "*" -> Value(num_mul(a, b))
         [] op = "/" -> Value(num_div(a, b))
         [] op = "//" -> Value(num_floordiv(a, b))
         [] op = "**" -> num_pow(a, b)

\* the value of a tree: the left operand first, then the right one, then
\* the operator
RECURSIVE eval_tree(_)
eval_tree(t) ==
  CASE t.op = "num" -> Value(t.v)
    [] t.op = "tuple" -> Value(EmptyTuple)
    [] t.op \in {"unary+", "unary-"} ->
         LET a == eval_tree(t.l)
         IN  IF a.err # "" THEN a
             ELSE IF is_tuple(a.val) THEN Raised("bad operand type for " \o t.op)
             ELSE IF t.op = "unary+" \/ ~a.val.exact THEN a
             ELSE Value(Num(-a.val.n, a.val.d, a.val.isfloat))
    [] t.op = "call" ->
         LET f == eval_tree(t.l)
             x == eval_tree(t.r)
         IN  IF f.err # "" THEN f
             ELSE IF x.err # "" THEN x
             ELSE Raised("object is not callable")
    [] OTHER ->
         LET a == eval_tree(t.l)
             b == eval_tree(t.r)
         IN  IF a.err # "" THEN a
             ELSE IF b.err # "" THEN b
             ELSE apply_binary(t.op, a.val, b.val)

\* eval(clean_expr)
eval_parsed(e) == IF e.ok THEN eval_tree(e.tree) ELSE Raised("invalid syntax")

py_eval(expr) == eval_parsed(parse_expression(tokenize(expr, 1)))

-----------------------------------------------------------------------------
(* plugins/base.py: ExecutionResult and the core plugins                   *)

\* None where an Optional[str] is expected
None == "<None>"

\* None where a data dict is expected
NoData == [none |-> TRUE]

ExecutionResult(success, data, message, error) ==
  [success |-> success, data |-> data, message |-> message, error |-> error]

success_result(data, message) == ExecutionResult(TRUE, data, message, None)

error_result(error) == ExecutionResult(FALSE, NoData, "", error)

\* apply_operator with the operands the other way round
apply_operator_swapped(operator, result, num) ==
  CASE operator = "add" -> Value(num_add(num, result))
    [] operator = "subtract" -> Value(num_sub(num, result))
    [] operator = "multiply" -> Value(num_mul(num, result))
    [] operator = "divide" ->
         IF ~is_zero(result) THEN Value(num_div(num, result))
         ELSE Raised("Division by zero")
    [] OTHER -> Value(result)

\* apply_operator without the test of the divisor, with a division that
\* yields an infinity
apply_operator_unguarded(operator, result, num) ==
  CASE operator = "add" -> Value(num_add(result, num))
    [] operator = "subtract" -> Value(num_sub(result, num))
    [] operator = "multiply" -> Value(num_mul(result, num))
    [] operator = "divide" ->
         IF ~is_zero(num) THEN Value(num_div(result, num)) ELSE Value(Inexact)
    [] OTHER -> Value(result)

\* one step of the loop over enumerate(operators) in CalculatorPlugin.execute
apply_operator(operator, result, num) ==
  CASE operator = "add" -> Value(num_add(result, num))
    [] operator = "subtract" -> Value(num_sub(result, num))
    [] operator = "multiply" -> Value(num_mul(result, num))
    [] operator = "divide" ->
         IF ~is_zero(num) THEN Value(num_div(result, num))
         ELSE Raised("Division by zero")
    [] OTHER -> Value(result)

\* the loop from operators[i] on (i is 0-based, as in the code); the outcome
\* is the running result, "Division by zero", or the ValueError of float()
RECURSIVE calculate_loop(_, _, _, _), loop_number(_, _, _, _, _),
          loop_next(_, _, _, _)
calculate_loop(numbers, operators, i, result) ==
  IF i >= Len(operators) THEN Value(result)
  ELSE IF i + 1 < Len(numbers)
    THEN loop_number(numbers, operators, i, result, py_float(numbers[i + 2]))
  ELSE calculate_loop(numbers, operators, i + 1, result)

\* num = float(numbers[i + 1]) and the operator applied to it
loop_number(numbers, operators, i, result, num) ==
  IF ~num.ok
    THEN Raised("could not convert string to float: '" \o numbers[i + 2] \o "'")
  ELSE loop_next(numbers, operators, i,
                 apply_operator(operators[i + 1], result, num.val))

\* the next round of the loop, unless the operator's step ended it
loop_next(numbers, operators, i, r) ==
  IF r.err # "" THEN r ELSE calculate_loop(numbers, operators, i + 1, r.val)

\* the result of the (numbers, operators) branch from the loop's outcome
numbers_result(r) ==
  IF r.err = "Division by zero" THEN error_result("Division by zero")
  ELSE IF r.err # "" THEN error_result("Calculation error: " \o r.err)
  ELSE success_result([result |-> r.val], "The answer is " \o num_str(r.val) \o ".")

\* result = float(numbers[0]) and the loop
numbers_from(numbers, operators, first) ==
  IF ~first.ok
    THEN error_result("Calculation error: could not convert string to float: '"
                        \o numbers[1] \o "'")
  ELSE numbers_result(calculate_loop(numbers, operators, 0, first.val))

\* the (numbers, operators) branch
calculate_numbers(numbers, operators) ==
  numbers_from(numbers, operators, py_float(numbers[1]))

\* a safety check that lets every expression through
allowed_whatever(expression) == expression # ""

\* re.match(r'^[\d\+\-\*\/\(\)\.\s]+$', expression)
allowed_expression(expression) ==
  expression # "" /\ \A i \in 1..Len(expression) : Ch(expression, i) \in MathChars

\* the expression branch
expression_result(clean_expr, r) ==
  IF r.err # ""
    THEN error_result("Invalid mathematical expression: " \o r.err)
    ELSE success_result(
           [result |-> r.val,
            expression |-> clean_expr \o " = " \o num_str(r.val)],
           "The answer is " \o num_str(r.val) \o ".")

\* result = eval(clean_expr)
evaluate(clean_expr) == expression_result(clean_expr, py_eval(clean_expr))

calculate_expression(expression) ==
  IF allowed_expression(expression) THEN evaluate(strip(expression))
  ELSE error_result("Expression contains invalid characters")

\* the expression looked for in original_text when neither an expression
\* nor numbers are given: re.search(r'[\d\+\-\*\/\(\)\.\s]+', original_text)
expression_of(parameters) ==
  IF parameters.expression = "" /\ parameters.numbers = <<>>
       /\ parameters.original_text # ""
    THEN LET t == parameters.original_text
             starts == {i \in 1..Len(t) : Ch(t, i) \in MathChars}
         IN  IF starts = {} THEN ""
             ELSE LET i == CHOOSE j \in starts : \A k \in starts : j <= k
                  IN  strip(SubSeq(t, i, run_end(t, i, MathChars) - 1))
    ELSE parameters.expression

calculate(parameters, expression) ==
  IF Len(parameters.numbers) >= 2 /\ parameters.operators # <<>>
    THEN calculate_numbers(parameters.numbers, parameters.operators)
  ELSE IF expression # "" THEN calculate_expression(expression)
  ELSE error_result("No valid calculation found")

CalculatorPlugin_execute(intent_name, parameters) ==
  calculate(parameters, expression_of(parameters))

-----------------------------------------------------------------------------
(* FileManagementPlugin, SystemControlPlugin, ConversationPlugin           *)

\* str(list) of a list of strings
RECURSIVE list_items(_, _)
list_items(l, k) ==
  IF k > Len(l) THEN ""
  ELSE (IF k > 1 THEN ", " ELSE "") \o "'" \o l[k] \o "'" \o list_items(l, k + 1)

list_str(l) == "[" \o list_items(l, 1) \o "]"

member(x, l) == \E k \in 1..Len(l) : l[k] = x

FileManagementPlugin_execute(intent_name, parameters) ==
  LET actions == parameters.actions
  IN  IF member("list", actions)
        THEN success_result(
               [action |-> "list", files |-> <<"file1.txt", "file2.py", "folder1/">>],
               "Here are the files in the current directory (this is a demo response)")
      ELSE IF member("create", actions)
        THEN success_result(
               [action |-> "create", created |-> "example_file.txt"],
               "I would create a new file or folder here (demo response)")
      ELSE success_result(
             [actions |-> actions, file_paths |-> parameters.file_paths],
             "File management request understood. Actions: " \o list_str(actions))

\* SystemIntegration.get_system_info: the dict of the platform's answers, or,
\* where a query of the platform raises, a dict with the key 'error'
get_system_info(env) ==
  IF env = "no platform" THEN [error |-> "platform query failed"]
  ELSE [platform |-> "Linux", release |-> "<release>"]

\* env is "fails" where "from astros.system.integration import ..." fails in
\* the place the plugin runs
SystemControlPlugin_execute(intent_name, parameters, env) ==
  IF env = "fails"
    THEN error_result("System control error: No module named 'astros'")
    ELSE success_result([system_info |-> get_system_info(env)],
                        "Here's your system information")

\* the knowledge base in insertion order (characters outside ASCII are
\* written *)
knowledge_base ==
  << [key |-> "paris",
      value |->
        "Paris is the capital and largest city of France, known for the "
        \o "Eiffel Tower, Louvre Museum, Notre-Dame Cathedral, and its rich "
        \o "culture, art, and cuisine. It's often called the 'City of Light'."],
     [key |-> "london",
      value |->
        "London is the capital of England and the United Kingdom, famous "
        \o "for Big Ben, the Tower of London, Buckingham Palace, and being "
        \o "a global financial center."],
     [key |-> "tokyo",
      value |->
        "Tokyo is the capital of Japan, known for its blend of traditional "
        \o "and modern culture, advanced technology, delicious cuisine, "
        \o "and being one of the world's largest metropolitan areas."],
     [key |-> "new york",
      value |->
        "New York City is the largest city in the United States, famous "
        \o "for Times Square, Central Park, the Statue of Liberty, Wall "
        \o "Street, and being a global hub for finance, arts, and culture."],
     [key |-> "ai",
      value |->
        "Artificial Intelligence (AI) is technology that enables machines "
        \o "to simulate human intelligence, including learning, reasoning, "
        \o "and problem-solving. It's used in many applications from virtual "
        \o "assistants to autonomous vehicles."],
     [key |-> "machine learning",
      value |->
        "Machine Learning is a subset of AI where computers learn patterns "
        \o "from data to make predictions or decisions without being explicitly "
        \o "programmed for each specific task."],
     [key |-> "python",
      value |->
        "Python is a popular programming language known for its simplicity "
        \o "and readability. It's widely used for web development, data "
        \o "science, AI/ML, automation, and many other applications."],
     [key |-> "computer",
      value |->
        "A computer is an electronic device that processes data, performs "
        \o "calculations, and executes instructions through hardware and "
        \o "software to help users accomplish various tasks."],
     [key |-> "sun",
      value |->
        "The Sun is the star at the center of our solar system. It provides "
        \o "light and heat energy that sustains life on Earth and is about "
        \o "4.6 billion years old."],
     [key |-> "earth",
      value |->
        "Earth is the third planet from the Sun and the only known planet "
        \o "with life. It has diverse ecosystems, water oceans, and an atmosphere "
        \o "that supports billions of species."],
     [key |-> "water",
      value |->
        "Water is essential for all known forms of life. It covers about "
        \o "71% of Earth's surface and is composed of hydrogen and oxygen "
        \o "(H2O)."],
     [key |-> "music",
      value |->
        "Music is an art form that combines sounds, rhythms, and melodies "
        \o "to create expressions of emotion, culture, and creativity. It's "
        \o "enjoyed worldwide in countless styles and genres."] >>

\* "for key, value in self.knowledge_base.items(): if key in query_lower"
RECURSIVE direct_match(_, _)
direct_match(query_lower, k) ==
  IF k > Len(knowledge_base) THEN ""
  ELSE IF contains(query_lower, knowledge_base[k].key) THEN knowledge_base[k].value
  ELSE direct_match(query_lower, k + 1)

get_knowledge_response(query) ==
  LET query_lower == strip(lower(query))
      direct == direct_match(query_lower, 1)
  IN  IF direct # "" THEN direct
      ELSE IF contains(query_lower, "how are you")
        THEN "I'm doing great! I'm an AI assistant running smoothly and ready "
             \o "to help you with any questions or tasks. How can I assist you "
             \o "today?"
      ELSE IF contains(query_lower, "who are you")
        THEN "I'm AstrOS, your intelligent AI assistant! I can help you with "
             \o "calculations, answer questions, provide information, manage "
             \o "files, and much more. I'm powered by advanced AI technology "
             \o "and always ready to assist."
      ELSE IF contains(query_lower, "what can you do")
        THEN "I can help you with many things! I can:\n* Answer questions "
             \o "on various topics\n* Perform mathematical calculations\n* Provide "
             \o "information about places, science, technology\n* Help with file "
             \o "management\n* Give system information\n* Have natural conversations\n* "
             \o "And much more! Just ask me anything!"
      ELSE IF contains(query_lower, "why error") \/ contains(query_lower, "error")
        THEN "I encountered a temporary issue with my cloud AI connection, "
             \o "but I'm still working! My local intelligence is active and ready "
             \o "to help. You can ask me questions about various topics, request "
             \o "calculations, or chat naturally."
      ELSE IF contains(query_lower, "thank")
        THEN "You're very welcome! I'm happy to help. Feel free to ask me "
             \o "anything else!"
      ELSE IF contains(query_lower, "bye") \/ contains(query_lower, "goodbye")
        THEN "Goodbye! It was great chatting with you. Come back anytime if "
             \o "you need assistance!"
      ELSE "That's an interesting question! While I may not have specific "
             \o "information about that topic in my immediate knowledge base, "
             \o "I'm here to help however I can. Could you provide more details "
             \o "or ask about something else I might know?"

\* conversation_history = conversation_history[-20:]
HistoryLimit == 20

last_n(l, n) == IF Len(l) > n THEN SubSeq(l, Len(l) - n + 1, Len(l)) ELSE l

\* parameters.get('query', parameters.get('text', '')): a key that is absent
\* is the empty text here
query_of(parameters) ==
  IF parameters.query # "" THEN parameters.query ELSE parameters.text

conversation_message(intent_name, query) ==
  CASE intent_name = "greeting" ->
         "Hello! I'm AstrOS, your intelligent AI assistant. I'm here to "
         \o "help you with questions, calculations, information, and much "
         \o "more. What would you like to know?"
    [] intent_name = "status" ->
         "I'm running perfectly! All my systems are operational and I'm "
         \o "ready to assist you with any questions or tasks."
    [] intent_name = "help" ->
         "I'm here to help! I can:\n\n* Answer questions about places, "
         \o "science, technology, and general topics\n* Perform mathematical "
         \o "calculations\n* Help with file management\n* Provide system "
         \o "information\n* Have natural conversations\n\nJust ask me anything "
         \o "naturally, like 'What is Paris?' or 'Calculate 15 * 8'!"
    [] intent_name = "time_date" -> "Current date and time: <now>"
    [] intent_name \in {"general", "question", "unknown"} \/ query # "" ->
         get_knowledge_response(query)
    [] OTHER -> "I'm here and ready to help! Ask me anything you'd like to know."

\* the history after the call and the result returned
conversation_result(intent_name, query, message, history) ==
  [history |-> history,
   result |-> success_result(
                [intent |-> intent_name, query |-> query,
                 history_length |-> Len(history)],
                message)]

\* l[:n]
first_n(l, n) == IF Len(l) > n THEN SubSeq(l, 1, n) ELSE l

\* the query, if any, and the message are appended; the first 20 are kept
conversation_answer_head(intent_name, query, message, conversation_history) ==
  conversation_result(
    intent_name, query, message,
    first_n(Append(IF query # ""
                     THEN Append(conversation_history, "User: " \o query)
                     ELSE conversation_history,
                   "AstrOS: " \o message),
            HistoryLimit))

\* the query, if any, and the message are appended; the last 20 are kept
conversation_answer(intent_name, query, message, conversation_history) ==
  conversation_result(
    intent_name, query, message,
    last_n(Append(IF query # ""
                    THEN Append(conversation_history, "User: " \o query)
                    ELSE conversation_history,
                  "AstrOS: " \o message),
           HistoryLimit))

conversation_reply(intent_name, query, conversation_history) ==
  conversation_answer(intent_name, query, conversation_message(intent_name, query),
                      conversation_history)

ConversationPlugin_execute(intent_name, parameters, conversation_history) ==
  conversation_reply(intent_name, query_of(parameters), conversation_history)

-----------------------------------------------------------------------------
(* plugins/base.py: plugin objects and PluginManager                       *)

\* the plugin objects: the four core plugins and one plugin written against
\* BasePlugin by a third party, which handles an intent of its own and
\* "calculation" as well
CorePlugins ==
  <<"CalculatorPlugin", "FileManagementPlugin", "SystemControlPlugin",
    "ConversationPlugin">>

\* plugins written by a third party: both report the name "external"
ThirdPartyPlugins == {"ExternalPlugin", "ReplacementPlugin"}

PluginObjects ==
  {"CalculatorPlugin", "FileManagementPlugin", "SystemControlPlugin",
   "ConversationPlugin"} \cup ThirdPartyPlugins

plugin_name(plugin) ==
  CASE plugin = "CalculatorPlugin" -> "calculator"
    [] plugin = "FileManagementPlugin" -> "file_management"
    [] plugin = "SystemControlPlugin" -> "system_control"
    [] plugin = "ConversationPlugin" -> "conversation"
    [] OTHER -> "external"

handled_intents(plugin) ==
  CASE plugin = "CalculatorPlugin" -> <<"calculation">>
    [] plugin = "FileManagementPlugin" -> <<"file_management">>
    [] plugin = "SystemControlPlugin" -> <<"system_control">>
    [] plugin = "ConversationPlugin" ->
         <<"greeting", "status", "help", "time_date", "general", "question",
           "unknown">>
    [] plugin = "ReplacementPlugin" -> <<"summarize">>
    [] OTHER -> <<"translate", "calculation">>

\* what lies outside the code during one call: whether the plugin written by
\* the third party returns or raises and whether the system integration
\* module can be imported ("fails" where not), and whether the platform
\* answers the queries of get_system_info ("no platform" where not)
Environments == {"ok", "fails", "no platform"}

\* dict operations
EmptyDict == [k \in {} |-> None]

get(d, k) == IF k \in DOMAIN d THEN d[k] ELSE None

put(d, k, v) == [x \in DOMAIN d \cup {k} |-> IF x = k THEN v ELSE d[x]]

RECURSIVE put_all(_, _, _, _)
put_all(d, keys, v, i) ==
  IF i > Len(keys) THEN d ELSE put_all(put(d, keys[i], v), keys, v, i + 1)

\* plugin.execute(intent_name, parameters): the exception raised ("" if
\* none), the result returned and the conversation plugin's history
returned(r) == [raised |-> "", history |-> r.history, result |-> r.result]

plugin_execute(plugin, intent_name, parameters, history, env) ==
  CASE plugin = "CalculatorPlugin" ->
         [raised |-> "", history |-> history,
          result |-> CalculatorPlugin_execute(intent_name, parameters)]
    [] plugin = "FileManagementPlugin" ->
         [raised |-> "", history |-> history,
          result |-> FileManagementPlugin_execute(intent_name, parameters)]
    [] plugin = "SystemControlPlugin" ->
         [raised |-> "", history |-> history,
          result |-> SystemControlPlugin_execute(intent_name, parameters, env)]
    [] plugin = "ConversationPlugin" ->
         returned(ConversationPlugin_execute(intent_name, parameters, history))
    [] OTHER ->
         IF env # "fails"
           THEN [raised |-> "", history |-> history,
                 result |-> success_result([external |-> intent_name], "external done")]
           ELSE [raised |-> "external plugin failed", history |-> history,
                 result |-> error_result("")]

\* a dict that keeps the value of a key it holds
RECURSIVE put_missing(_, _, _, _)
put_missing(d, keys, v, i) ==
  IF i > Len(keys) THEN d
  ELSE put_missing(IF keys[i] \in DOMAIN d THEN d ELSE put(d, keys[i], v),
                   keys, v, i + 1)

\* load_plugin that leaves an intent with the plugin that declared it first
load_plugin_first_wins(plugin, outcome, registry) ==
  IF outcome = "true"
    THEN [returned |-> TRUE,
          status |-> [registry.status EXCEPT ![plugin] = "loaded"],
          plugins |-> put(registry.plugins, plugin_name(plugin), plugin),
          plugin_handlers |->
            put_missing(registry.plugin_handlers, handled_intents(plugin),
                        plugin, 1)]
    ELSE [returned |-> FALSE,
          status |-> [registry.status EXCEPT ![plugin] = "error"],
          plugins |-> registry.plugins,
          plugin_handlers |-> registry.plugin_handlers]

\* PluginManager.load_plugin with the outcome of plugin.initialize()
\* ("true", "false" or "raises"): the registry after the call and the value
\* returned
load_plugin(plugin, outcome, registry) ==
  IF outcome = "true"
    THEN [returned |-> TRUE,
          status |-> [registry.status EXCEPT ![plugin] = "loaded"],
          plugins |-> put(registry.plugins, plugin_name(plugin), plugin),
          plugin_handlers |->
            put_all(registry.plugin_handlers, handled_intents(plugin), plugin, 1)]
    ELSE [returned |-> FALSE,
          status |-> [registry.status EXCEPT ![plugin] = "error"],
          plugins |-> registry.plugins,
          plugin_handlers |-> registry.plugin_handlers]

registry_after(r) ==
  [status |-> r.status, plugins |-> r.plugins, plugin_handlers |-> r.plugin_handlers]

\* _load_core_plugins: the core plugins in order; their initialize returns
\* True
RECURSIVE load_core_plugins(_, _)
load_core_plugins(registry, i) ==
  IF i > Len(CorePlugins) THEN registry
  ELSE load_core_plugins(
         registry_after(load_plugin(CorePlugins[i], "true", registry)), i + 1)

\* PluginManager.execute_intent: whether an exception leaves the call, the
\* result it returns, the plugin objects whose execute it invoked, in order,
\* and the conversation plugin's history after it
not_executed(history, error) ==
  [raised |-> FALSE, invoked |-> <<>>, history |-> history,
   result |-> error_result(error)]

\* "result = await plugin.execute(...); return result" and the except clause
execution(plugin, r) ==
  [raised |-> FALSE, invoked |-> <<plugin>>, history |-> r.history,
   result |-> IF r.raised # "" THEN error_result(r.raised) ELSE r.result]

\* execute_intent without the test of plugin.status
execute_with_any_status(plugin, intent_name, parameters, registry, history, env) ==
  IF plugin = None
    THEN not_executed(history, "No plugin found for intent: " \o intent_name)
  ELSE execution(plugin,
                 plugin_execute(plugin, intent_name, parameters, history, env))

execute_with(plugin, intent_name, parameters, registry, history, env) ==
  IF plugin = None
    THEN not_executed(history, "No plugin found for intent: " \o intent_name)
  ELSE IF registry.status[plugin] # "loaded"
    THEN not_executed(history,
                      "Plugin " \o plugin_name(plugin) \o " is not available")
  ELSE execution(plugin,
                 plugin_execute(plugin, intent_name, parameters, history, env))

execute_intent(intent_name, parameters, registry, history, env) ==
  execute_with(get(registry.plugin_handlers, intent_name), intent_name,
               parameters, registry, history, env)

\* PluginManager.shutdown: both dicts are cleared; the plugins keep their
\* status
manager_shutdown(registry) ==
  [status |-> registry.status, plugins |-> EmptyDict, plugin_handlers |-> EmptyDict]

\* the loop of PluginManager.shutdown over self.plugins.values(): the plugins
\* whose shutdown is awaited, and those of them whose exception is logged
shutdown_loop(registry, raising) ==
  [invoked |-> {registry.plugins[n] : n \in DOMAIN registry.plugins},
   logged |-> {registry.plugins[n] : n \in DOMAIN registry.plugins} \cap raising]

-----------------------------------------------------------------------------
(* ai/openai_client.py: classify_intent_advanced over the replies of the  *)
(* remote model, and ai/nlp.py: process                                    *)

\* a reply of the remote model to a classification request: the transport
\* raises, the content is no JSON, or it is a JSON object with "intent" and
\* "confidence" ("" and -1 where the key is missing); confidence in tenths
Reply(kind, intent, confidence) ==
  [kind |-> kind, intent |-> intent, confidence |-> confidence]

\* classify_intent_advanced: (intent, confidence, parameters) or an exception
classify_intent_advanced(reply) ==
  CASE reply.kind = "raises" ->
         [raised |-> "remote request failed", name |-> "", confidence |-> 0]
    [] reply.kind = "malformed" ->
         [raised |-> "", name |-> "unknown", confidence |-> 0]
    [] OTHER ->
         [raised |-> "",
          name |-> IF reply.intent = "" THEN "unknown" ELSE reply.intent,
          confidence |-> IF reply.confidence < 0 THEN 5 ELSE reply.confidence]

\* "if confidence > 0.6", in tenths
RemoteFloor == 6

\* f"{confidence:.2f}" of a confidence in tenths
confidence_str(c) == nat_str(c \div 10) \o "." \o nat_str(c % 10) \o "0"

\* _classify_intent_enhanced without its try and except: what the remote
\* call raises ends process in its own except clause, with _basic_process
classify_intent_enhanced_no_except(text, entities, use_remote, reply) ==
  IF use_remote /\ classify_intent_advanced(reply).raised # ""
    THEN Intent("conversation", 5, <<>>, NoParams, "", "fallback")
  ELSE IF use_remote /\ classify_intent_advanced(reply).confidence > RemoteFloor
    THEN Intent(classify_intent_advanced(reply).name,
                classify_intent_advanced(reply).confidence, entities, NoParams,
                "GPT classified with "
                  \o confidence_str(classify_intent_advanced(reply).confidence)
                  \o " confidence",
                "gpt")
  ELSE classify_intent_local(text, entities)

\* "use_gpt and self.openai_client and self.openai_client.is_available()"
remote_enabled(use_gpt, available) == use_gpt /\ available

\* a test that trusts the remote model at the floor too
trusted_at_floor(remote) == remote.confidence >= RemoteFloor

\* "if confidence > 0.6"
trusted(remote) == remote.confidence > RemoteFloor

\* the Intent returned for a classification of the remote model
gpt_intent(remote, entities) ==
  Intent(remote.name, remote.confidence, entities, NoParams,
         "GPT classified with " \o confidence_str(remote.confidence)
           \o " confidence",
         "gpt")

\* the resolver with a request to the remote model whatever use_remote is
resolve_remote_regardless(text, entities, use_remote, reply) ==
  IF classify_intent_advanced(reply).raised = ""
       /\ trusted(classify_intent_advanced(reply))
    THEN [stages |-> <<"remote">>,
          intent |-> gpt_intent(classify_intent_advanced(reply), entities)]
    ELSE [stages |-> <<"remote", "local">>,
          intent |-> classify_intent_local(text, entities)]

\* _classify_intent_enhanced with the stages it went through: "remote" is the
\* await of classify_intent_advanced, "local" the await of
\* _classify_intent_local; use_remote is the condition of the first if
resolve(text, entities, use_remote, reply) ==
  IF use_remote /\ classify_intent_advanced(reply).raised = ""
       /\ trusted(classify_intent_advanced(reply))
    THEN [stages |-> <<"remote">>,
          intent |-> gpt_intent(classify_intent_advanced(reply), entities)]
    ELSE [stages |-> (IF use_remote THEN <<"remote">> ELSE <<>>) \o <<"local">>,
          intent |-> classify_intent_local(text, entities)]

\* _classify_intent_enhanced
classify_intent_enhanced(text, entities, use_remote, reply) ==
  resolve(text, entities, use_remote, reply).intent

ProcessedInput(original_text, cleaned_text, entities, intent) ==
  [raised |-> "", original_text |-> original_text, cleaned_text |-> cleaned_text,
   entities |-> entities, intent |-> intent,
   used_gpt |-> intent.source = "gpt"]

\* _basic_process, which raises for a command that is no text
basic_process(text) ==
  IF text = None
    THEN [ProcessedInput(text, "", <<>>, NoIntent)
            EXCEPT !.raised = "'NoneType' object has no attribute 'strip'"]
    ELSE ProcessedInput(text, strip(text), <<>>,
                        Intent("conversation", 5, <<>>, NoParams, "", "fallback"))

\* process; tagger is "ok", or "fails" when the call of the tagger raises
process_cleaned(text, cleaned_text, entities, use_remote, reply) ==
  ProcessedInput(text, cleaned_text, entities,
                 classify_intent_enhanced(cleaned_text, entities, use_remote, reply))

process(text, use_remote, reply, tagger) ==
  IF text = None \/ tagger = "fails" THEN basic_process(text)
  ELSE process_cleaned(text, clean_text(text), tagger_ents(text, 1),
                       use_remote, reply)

-----------------------------------------------------------------------------
(* ai/nlp.py: EnhancedResponseGenerator                                    *)

response_templates ==
  [ greeting |-> <<
       "Hello! I'm AstrOS, your AI assistant. How can I help you?",
       "Hi there! What would you like me to help you with today?",
       "Greetings! I'm here to assist you with various tasks.",
       "Hello! Ready to help with your computing needs.",
       "Hi! I'm AstrOS, your intelligent assistant. What can I do for you?"
     >>,
    help |-> <<
       "I can help you with file management, calculations, system information, and more. Try asking me to 'organize my files' or 'calculate 25 * 4'.",
       "I'm here to assist! I can handle file operations, mathematical calculations, system queries, and general conversation. What would you like to try?",
       "Available features: file management, calculations, system information, web searches, and intelligent conversation. How can I help?",
       "I can assist with various tasks including file organization, mathematical computations, system monitoring, and more. What interests you?"
     >>,
    calculation |-> <<
       "The result is {result}.", "That equals {result}.", "The answer is {result}.",
       "Computing... the result is {result}."
     >>,
    system_info |-> <<
       "Here's your system information:", "System details retrieved:",
       "Current system status:", "System information summary:"
     >>,
    error |-> <<
       "I encountered an error processing that request.",
       "Sorry, something went wrong with that operation.",
       "I'm having trouble with that request right now.",
       "There was an issue processing your command."
     >>,
    unknown |-> <<
       "I'm not sure how to handle that request. Could you try rephrasing?",
       "That's not something I can help with yet. Try asking about files, calculations, or system information.",
       "I don't understand that command. Try 'help' to see what I can do.",
       "Could you clarify what you'd like me to do?"
     >>
  ]

\* np.random.choice draws one of the templates: the list it draws from
templates_for(intent, error) ==
  IF error # None /\ error # "" THEN response_templates.error
  ELSE IF intent.source # "none" /\ intent.name \in DOMAIN response_templates
    THEN response_templates[intent.name]
  ELSE response_templates.unknown

\* the end (exclusive) of the first occurrence of p in s from i, 0 if none
RECURSIVE find_end(_, _, _)
find_end(s, p, i) ==
  IF i + Len(p) - 1 > Len(s) THEN 0
  ELSE IF SubSeq(s, i, i + Len(p) - 1) = p THEN i + Len(p)
  ELSE find_end(s, p, i + 1)

\* response.format(**result_data) for the one placeholder the templates
\* use, {result}; ok is FALSE for a KeyError
format_template(response, result_data) ==
  LET e == find_end(response, "{result}", 1)
  IN  IF e = 0 THEN [ok |-> TRUE, text |-> response]
      ELSE IF "result" \in DOMAIN result_data
        THEN [ok |-> TRUE,
              text |-> SubSeq(response, 1, e - 9) \o num_str(result_data.result)
                         \o SubSeq(response, e, Len(response))]
      ELSE [ok |-> FALSE, text |-> response]

\* _generate_template_response with the k-th template drawn
generate_template_response(intent, result_data, error, k) ==
  LET response == templates_for(intent, error)[k]
      formatted == format_template(response, result_data)
  IN  IF error # None /\ error # "" THEN response
      ELSE IF result_data = NoData THEN response
      ELSE IF formatted.ok THEN formatted.text
      ELSE IF "result" \in DOMAIN result_data
        THEN response \o " " \o num_str(result_data.result)
      ELSE response

\* generate_response; use_remote is "use_gpt and self.openai_client and
\* self.openai_client.is_available()"
generate_response(intent, result_data, error, use_remote, k) ==
  IF use_remote /\ intent.source = "gpt"
    THEN IF intent.reasoning # "" THEN intent.reasoning
         ELSE "I've processed your request."
    ELSE generate_template_response(intent, result_data, error, k)

-----------------------------------------------------------------------------
(* core/agent.py: AstrOSAgent                                              *)

\* config.agent_name
agent_name == "AstrOS Assistant"

\* config.ai.enable_openai in basic mode: the default, which only
\* _initialize_ai_components changes
enable_openai == FALSE

\* config.ai.conversation_memory_size
conversation_memory_size == 1

\* l[-n:]
python_tail(l, n) == IF n = 0 THEN l ELSE last_n(l, n)

Message(role, content) == [role |-> role, content |-> content]

\* --- ai/openai_client.py: the prompt OpenAIClient.generate_response sends ---

\* the default system message of _build_messages with the default agent_name,
\* agent_personality and response_style
default_system ==
  "You are AstrOS Assistant, an intelligent AI assistant integrated into AstrOS.\n            \n            Your personality is helpful and your response style is conversational.\n            \n            You can help with:\n            - File management and organization\n            - Mathematical calculations and computations\n            - System information and control\n            - General questions and conversations\n            - Task automation and productivity\n            \n            Be helpful, accurate, and maintain context across conversations.\n            Keep responses concise but informative."

\* repr(str): the characters escaped and the text quoted
repr_char(c, quote) ==
  CASE c = "\n" -> "\\n"
    [] c = "\t" -> "\\t"
    [] c = "\r" -> "\\r"
    [] c = "\\" -> "\\\\"
    [] c = quote -> "\\" \o quote
    [] OTHER -> c

\* the characters text[lo..hi] escaped, the halves one after the other
RECURSIVE repr_chars(_, _, _, _)
repr_chars(text, quote, lo, hi) ==
  IF lo > hi THEN ""
  ELSE IF lo = hi THEN repr_char(Ch(text, lo), quote)
  ELSE repr_chars(text, quote, lo, (lo + hi) \div 2)
         \o repr_chars(text, quote, (lo + hi) \div 2 + 1, hi)

has_char(text, c) == \E i \in 1..Len(text) : Ch(text, i) = c

repr_str(text) ==
  IF has_char(text, "'") /\ ~has_char(text, "\"")
    THEN "\"" \o repr_chars(text, "\"", 1, Len(text)) \o "\""
    ELSE "'" \o repr_chars(text, "'", 1, Len(text)) \o "'"

\* str(msg) of a message dict
str_message(msg) ==
  "{'role': " \o repr_str(msg.role) \o ", 'content': "
    \o repr_str(msg.content) \o "}"

\* count_tokens: a quarter of the characters without a token encoder; with
\* one, the length of the encoding, here an encoding of a token a character
count_tokens(text, encoder) ==
  IF encoder = "none" THEN Len(text) \div 4 ELSE Len(text)

message_tokens(msg, encoder) == count_tokens(str_message(msg), encoder)

\* sum(self.count_tokens(str(msg)) for msg in messages)
RECURSIVE total_tokens(_, _, _)
total_tokens(msgs, encoder, i) ==
  IF i > Len(msgs) THEN 0
  ELSE message_tokens(msgs[i], encoder) + total_tokens(msgs, encoder, i + 1)

\* _build_messages
build_messages(user_input, context, system_prompt) ==
  <<Message("system", IF system_prompt # None /\ system_prompt # ""
                        THEN system_prompt ELSE default_system)>>
    \o python_tail(context, conversation_memory_size)
    \o <<Message("user", user_input)>>

\* the loop of _trim_messages over reversed(history), at history[k]
RECURSIVE trimmed_history(_, _, _, _, _)
trimmed_history(history, available_tokens, current_tokens, encoder, k) ==
  IF k = 0 THEN <<>>
  ELSE IF current_tokens + message_tokens(history[k], encoder) <= available_tokens
    THEN trimmed_history(history, available_tokens,
                         current_tokens + message_tokens(history[k], encoder),
                         encoder, k - 1)
           \o <<history[k]>>
  ELSE <<>>

\* the same loop over history in its own order: the oldest turns are kept
RECURSIVE oldest_history(_, _, _, _, _)
oldest_history(history, available_tokens, current_tokens, encoder, k) ==
  IF k > Len(history) THEN <<>>
  ELSE IF current_tokens + message_tokens(history[k], encoder) <= available_tokens
    THEN <<history[k]>>
           \o oldest_history(history, available_tokens,
                             current_tokens + message_tokens(history[k], encoder),
                             encoder, k + 1)
  ELSE <<>>

\* _trim_messages that keeps the oldest turns
trim_messages_oldest(msgs, target_tokens, encoder) ==
  IF Len(msgs) <= 2 THEN msgs
  ELSE <<msgs[1]>>
         \o oldest_history(SubSeq(msgs, 2, Len(msgs) - 1),
                           target_tokens - (message_tokens(msgs[1], encoder)
                                            + message_tokens(msgs[Len(msgs)], encoder)),
                           0, encoder, 1)
         \o <<msgs[Len(msgs)]>>

\* _trim_messages
trim_messages(msgs, target_tokens, encoder) ==
  IF Len(msgs) <= 2 THEN msgs
  ELSE <<msgs[1]>>
         \o trimmed_history(SubSeq(msgs, 2, Len(msgs) - 1),
                            target_tokens - (message_tokens(msgs[1], encoder)
                                             + message_tokens(msgs[Len(msgs)], encoder)),
                            0, encoder, Len(msgs) - 2)
         \o <<msgs[Len(msgs)]>>

\* "Check token count" of generate_response: the messages that are sent
prompt_within(msgs, context_window, encoder) ==
  IF total_tokens(msgs, encoder, 1) > context_window
    THEN trim_messages(msgs, context_window \div 2, encoder)
    ELSE msgs

\* what a call of the adapter yields: an exception, or the value returned,
\* with the messages sent to the remote model
Adapted(raised, sent, value) ==
  [raised |-> raised, sent |-> sent, returned |-> value]

\* GPTResponse; the confidence in hundredths
GPTResponse(content, finish_reason) ==
  [content |-> strip(content), finish_reason |-> finish_reason,
   confidence |-> IF finish_reason = "stop" THEN 95 ELSE 80]

\* OpenAIClient.generate_response; completion is what chat.completions.create
\* does: it raises, or returns a choice with a content and a finish_reason
OpenAIClient_generate_response(available, encoder, user_input, context, system_prompt, context_window, completion) ==
  IF ~available THEN Adapted("OpenAI client not available", <<>>, None)
  ELSE IF completion.kind = "raises"
    THEN Adapted("remote request failed",
                 prompt_within(build_messages(user_input, context, system_prompt),
                               context_window, encoder),
                 None)
  ELSE Adapted("",
               prompt_within(build_messages(user_input, context, system_prompt),
                             context_window, encoder),
               GPTResponse(completion.content, completion.finish_reason))

\* the methods of the adapter that EnhancedNLPProcessor.process calls, in
\* order: _extract_entities_enhanced asks for entities whenever the client is
\* available, _classify_intent_enhanced for an intent when use_gpt is set as
\* well; a text that is None or a tagger that raises ends the try block
\* before either
process_requests(text, use_gpt, available, tagger) ==
  IF text = None \/ tagger = "fails" THEN <<>>
  ELSE (IF available THEN <<"extract_entities_advanced">> ELSE <<>>)
         \o (IF remote_enabled(use_gpt, available)
               THEN <<"classify_intent_advanced">> ELSE <<>>)

\* OpenAIClient.classify_intent_advanced with its test of is_available
OpenAIClient_classify_intent_advanced(available, reply) ==
  IF ~available THEN Adapted("OpenAI client not available", <<>>, None)
  ELSE Adapted(classify_intent_advanced(reply).raised, <<"classify">>,
               IF classify_intent_advanced(reply).raised # "" THEN None
               ELSE [name |-> classify_intent_advanced(reply).name,
                     confidence |-> classify_intent_advanced(reply).confidence])

\* OpenAIClient.extract_entities_advanced with its test of is_available
OpenAIClient_extract_entities_advanced(available, reply) ==
  IF ~available THEN Adapted("", <<>>, Extracted("dict", <<>>))
  ELSE Adapted("", <<"extract">>, extract_entities_advanced(reply))

\* the dict process_command returns; a key that is absent is None
Response(success, message, intent, confidence, data) ==
  [raised |-> "", success |-> success, message |-> message, intent |-> intent,
   confidence |-> confidence, data |-> data]

\* an exception leaves the call
Raises(exception) ==
  [raised |-> exception, success |-> FALSE, message |-> "", intent |-> None,
   confidence |-> 0, data |-> NoData]

\* SystemIntegration.execute_command

\* the end (exclusive) of the run of non-whitespace at i
RECURSIVE word_end(_, _)
word_end(s, i) ==
  IF i <= Len(s) /\ Ch(s, i) \notin Whitespace THEN word_end(s, i + 1) ELSE i

\* str.split(): the maximal runs of non-whitespace
RECURSIVE split(_)
split(s) ==
  IF lstrip(s) = "" THEN <<>>
  ELSE <<SubSeq(lstrip(s), 1, word_end(lstrip(s), 1) - 1)>>
         \o split(SubSeq(lstrip(s), word_end(lstrip(s), 1), Len(lstrip(s))))

\* the dict execute_command builds on the platform given
safe_commands(system) ==
  [name \in {"date", "time", "whoami", "pwd", "ls", "dir", "uptime"} |->
     CASE name = "date" -> <<"date">>
       [] name = "time" -> <<"date">>
       [] name = "whoami" -> <<"whoami">>
       [] name = "pwd" -> <<"pwd">>
       [] name = "ls" -> <<"ls", "-la">>
       [] name = "dir" -> IF system = "Windows" THEN <<"dir">> ELSE <<"ls", "-la">>
       [] name = "uptime" ->
            IF system # "Windows" THEN <<"uptime">> ELSE <<"systeminfo">>]

\* what execute_command did: the argv it gave to subprocess.run (none if it
\* did not call it) and the dict it returned
Executed(argv, success, error) ==
  [argv |-> argv, success |-> success, error |-> error]

\* the argv execute_command runs; the parts typed by the user
actual_command_as_typed(commands, cmd_parts) == cmd_parts

\* "actual_command = safe_commands[cmd_parts[0]]"
actual_command(commands, cmd_parts) == commands[cmd_parts[1]]

\* "if not cmd_parts or cmd_parts[0] not in safe_commands"
refused(commands, cmd_parts) ==
  cmd_parts = <<>> \/ cmd_parts[1] \notin DOMAIN commands

\* subprocess.run and the clauses after it; outcome is what the process did
run_command(argv, outcome) ==
  CASE outcome = "zero" -> Executed(argv, TRUE, "")
    [] outcome = "nonzero" -> Executed(argv, FALSE, "<stderr>")
    [] outcome = "timeout" -> Executed(argv, FALSE, "Command timed out")
    [] outcome = "raises" -> Executed(argv, FALSE, "<exception>")

\* the body of execute_command for a text
execute_parts(commands, command, cmd_parts, outcome) ==
  IF refused(commands, cmd_parts)
    THEN Executed(<<>>, FALSE, "Command not allowed or not recognized: " \o command)
    ELSE run_command(actual_command(commands, cmd_parts), outcome)

\* execute_command; an argument that is no text raises at command.strip(),
\* inside the try
execute_command(system, command, outcome) ==
  IF command = None
    THEN Executed(<<>>, FALSE, "'NoneType' object has no attribute 'strip'")
    ELSE execute_parts(safe_commands(system), command,
                       split(lower(strip(command))), outcome)

\* the keys of the dict process_command returns: the dicts of the basic mode
\* and of the except clauses are written without 'intent' and 'confidence',
\* and these are the responses whose intent is None here
response_keys(r) ==
  {"success", "message", "timestamp", "agent"}
    \cup (IF r.intent # None THEN {"intent", "confidence"} ELSE {})

\* the registry of the agent's plugin manager
registry_of(self) ==
  [status |-> self.status, plugins |-> self.plugins,
   plugin_handlers |-> self.plugin_handlers]

\* the plugins import the system integration module the agent imported when
\* it was initialized
environment(self) == IF self.system THEN "ok" ELSE "fails"

\* shutdown
shutdown(self) ==
  LET cleared == manager_shutdown(registry_of(self))
  IN  [self EXCEPT
         !.plugins = IF self.plugin_manager THEN cleared.plugins ELSE @,
         !.plugin_handlers =
            IF self.plugin_manager THEN cleared.plugin_handlers ELSE @,
         !.messages = <<>>,
         !.is_running = FALSE]

\* _update_conversation_context with a slice that keeps the oldest messages
update_conversation_context_head(messages, command) ==
  IF Len(messages) + 1 > conversation_memory_size
    THEN SubSeq(Append(messages, Message("user", command)), 1,
                conversation_memory_size)
    ELSE Append(messages, Message("user", command))

\* _update_conversation_context: the messages after it
update_conversation_context(messages, command) ==
  LET appended == Append(messages, Message("user", command))
  IN  IF Len(appended) > conversation_memory_size
        THEN python_tail(appended, conversation_memory_size)
        ELSE appended

\* the update of the context in _process_with_openai_general
update_general_context(messages, command, content) ==
  LET appended == messages \o <<Message("user", command),
                                Message("assistant", content)>>
  IN  IF Len(appended) > conversation_memory_size * 2
        THEN python_tail(appended, conversation_memory_size * 2)
        ELSE appended

any_in(words, text) == \E w \in words : contains(text, w)

basic_help_text ==
  agent_name \o " - Available Commands:\n* hello, hi - Greet the assistant\n"
    \o "* status - Check system status\n* help - Show this help message\n"
    \o "* system info - Display system information\n"
    \o "* config - Show configuration status\n"
    \o "* shutdown, quit - Stop the agent\n\n"
    \o "Enhanced features available when AI components are loaded."

\* _process_basic: the exception it raises ("" if none), the dict it returns
\* and the agent after it
process_basic(self, command) ==
  IF command = None
    THEN [raised |-> "'NoneType' object has no attribute 'lower'",
          response |-> Raises(""), agent |-> self]
  ELSE
    LET command_lower == strip(lower(command))
        reply(success, message, data) ==
          [raised |-> "", agent |-> self,
           response |-> Response(success, message, None, 0, data)]
    IN  IF contains(command_lower, "hello") \/ contains(command_lower, "hi")
          THEN reply(TRUE, "Hello! I'm " \o agent_name \o " running in basic mode. "
                             \o "Enhanced AI features are not available.", NoData)
        ELSE IF contains(command_lower, "status")
          THEN reply(TRUE, "AstrOS Agent is operational ("
                             \o (IF enable_openai THEN "OpenAI-enabled" ELSE "Local")
                             \o " mode, basic fallback active).",
                     [openai_enabled |-> enable_openai])
        ELSE IF contains(command_lower, "help")
          THEN reply(TRUE, basic_help_text, NoData)
        ELSE IF contains(command_lower, "config")
          THEN reply(TRUE, "Configuration Status:",
                     [conversation_memory |-> conversation_memory_size])
        ELSE IF contains(command_lower, "system") /\ contains(command_lower, "info")
          THEN IF self.system
                 THEN reply(TRUE, "System Information Retrieved",
                            [system_info |-> "<system_info>"])
                 ELSE reply(FALSE, "System integration not available", NoData)
        ELSE IF contains(command_lower, "shutdown") \/ contains(command_lower, "quit")
          THEN [raised |-> "", agent |-> shutdown(self),
                response |-> Response(TRUE, "Shutting down " \o agent_name \o "...",
                                      None, 0, NoData)]
        ELSE reply(TRUE, "Command '" \o command
                           \o "' processed in basic mode. Try 'help' for available commands.",
                   NoData)

\* the except clause of process_command: the dict it builds reads
\* self.config['agent']['name'], and the configuration object has no
\* __getitem__, so a TypeError leaves the handler
outermost_handler(exception) ==
  Raises("'EnhancedConfig' object is not subscriptable")

\* the try and except clauses of process_command around _process_basic
basic_outcome(r) ==
  IF r.raised # ""
    THEN [agent |-> r.agent, response |-> outermost_handler(r.raised)]
    ELSE [agent |-> r.agent, response |-> r.response]

\* process_command when the AI components are missing
process_command_basic(self, command) == basic_outcome(process_basic(self, command))

\* the reply of the remote model to generate_general_response, a capability
\* of the client that src/ does not hold: the call raises, or it returns
\* text with a confidence
GeneralReply(kind, content, confidence) ==
  [kind |-> kind, content |-> content, confidence |-> confidence]

GeneralKeywords == {"calculate", "compute", "math", "+", "-", "*", "/"}

\* "Update conversation context" and "Limit conversation history"
general_remembered(self, command, gpt_response) ==
  [self EXCEPT !.messages =
     update_general_context(self.messages, command, gpt_response.content)]

general_appended(command, gpt_response) ==
  <<Message("user", command), Message("assistant", gpt_response.content)>>

\* the elif chain of the keyword detection
general_intent(command_lower) ==
  IF any_in({"file", "folder", "directory", "list"}, command_lower)
    THEN "file_management"
  ELSE IF any_in({"system", "info", "memory", "cpu"}, command_lower)
    THEN "system_control"
  ELSE IF any_in({"hello", "hi", "hey", "greeting"}, command_lower)
    THEN "greeting"
  ELSE IF any_in({"help", "what can you do"}, command_lower)
    THEN "help"
  ELSE "general_query"

\* the dict returned
general_response(gpt_response, intent_name, data) ==
  Response(TRUE, gpt_response.content, intent_name, gpt_response.confidence, data)

\* the branch of the keyword detection that executed the calculation
general_calculation(self, command, gpt_response, executed) ==
  [raised |-> "",
   response |-> IF executed.result.success
                  THEN general_response(gpt_response, "calculation",
                                        executed.result.data)
                  ELSE general_response(gpt_response, "general_query", NoData),
   agent |-> [general_remembered(self, command, gpt_response)
                EXCEPT !.conversation_history = executed.history],
   appended |-> general_appended(command, gpt_response),
   invoked |-> executed.invoked]

general_detection(self, command, gpt_response, command_lower) ==
  IF any_in(GeneralKeywords, command_lower)
    THEN IF self.plugin_manager
           THEN general_calculation(
                  self, command, gpt_response,
                  execute_intent("calculation",
                                 [NoParams EXCEPT !.expression = command],
                                 registry_of(self), self.conversation_history,
                                 environment(self)))
           ELSE [raised |-> "",
                 response |-> general_response(gpt_response, "general_query", NoData),
                 agent |-> general_remembered(self, command, gpt_response),
                 appended |-> general_appended(command, gpt_response),
                 invoked |-> <<>>]
    ELSE [raised |-> "",
          response |-> general_response(gpt_response,
                                        general_intent(command_lower), NoData),
          agent |-> general_remembered(self, command, gpt_response),
          appended |-> general_appended(command, gpt_response),
          invoked |-> <<>>]

\* _process_with_openai_general: the exception it raises ("" if none), the
\* dict it returns, the agent after it, the messages it appended and the
\* plugins it invoked
process_with_openai_general(self, command, gpt_response) ==
  IF gpt_response.kind = "raises"
    THEN [raised |-> "remote request failed", response |-> Raises(""),
          agent |-> self, appended |-> <<>>, invoked |-> <<>>]
  ELSE IF command = None
    THEN [raised |-> "'NoneType' object has no attribute 'lower'",
          response |-> Raises(""),
          agent |-> general_remembered(self, command, gpt_response),
          appended |-> general_appended(command, gpt_response),
          invoked |-> <<>>]
  ELSE general_detection(self, command, gpt_response, lower(command))

\* the except clause at the end of _process_with_ai
ai_error(exception) ==
  Response(FALSE, "OpenAI processing error: " \o exception, None, 0, NoData)

\* the commands given; None is an argument that is no text
Commands ==
  {"hello", "status", "shutdown", "what is 100 divided by 4", None}

\* the replies of the remote model to a classification request
ClassificationReplies ==
  {Reply("raises", "", 0), Reply("malformed", "", 0),
   Reply("json", "greeting", 9), Reply("json", "shutdown", 6)}

GeneralReplies ==
  {GeneralReply("raises", "", 0), GeneralReply("returns", "<reply>", 9)}

\* no request is sent
NoReply == Reply("none", "", 0)

\* process for every command and reply above, as a table that is evaluated
\* once (@@ yields the function written out)
processed_inputs ==
  [a \in Commands \X BOOLEAN \X (ClassificationReplies \cup {NoReply})
           \X {"ok", "fails"} |->
     process(a[1], a[2], a[3], a[4])] @@ <<>>

\* np.random.choice(templates) with the number drawn
draw_index(templates, draw) == (draw % Len(templates)) + 1

\* _update_conversation_context and "self.conversation_context.last_intent ="
remembered(self, command, intent) ==
  [self EXCEPT
     !.messages = update_conversation_context(self.messages, command),
     !.last_intent = IF intent.source # "none" THEN intent.name ELSE @]

\* the response text: the response generator's, or the result's message
generated(intent, data, error, use_remote, draw) ==
  generate_response(intent, data, error, use_remote,
                    draw_index(templates_for(intent, error), draw))

turn_message(self, intent, result, draw) ==
  IF self.response_generator
    THEN generated(intent,
                   IF result.success THEN result.data ELSE NoData,
                   IF ~result.success THEN result.error ELSE None,
                   self.openai_client, draw)
  ELSE IF result.message # "" THEN result.message
  ELSE "Operation completed"

\* the dict returned once the plugin manager has executed the intent, or
\* "conversation" where no intent was resolved
turn_response(self, intent, result, draw) ==
  IF intent.source = "none"
    THEN IF result.success
           THEN Response(TRUE, result.message, "conversation", 7, result.data)
           ELSE Response(FALSE,
                  "I'm not sure how to help with that. Could you try rephrasing?",
                  "unknown", 0, NoData)
    ELSE Response(result.success, turn_message(self, intent, result, draw),
                  intent.name, intent.confidence, result.data)

turn_executed(self, command, draw, processed_input, executed) ==
  [response |-> turn_response(self, processed_input.intent, executed.result, draw),
   agent |-> [remembered(self, command, processed_input.intent)
                EXCEPT !.conversation_history = executed.history],
   appended |-> <<Message("user", command)>>,
   invoked |-> executed.invoked,
   processed |-> processed_input]

\* the intent and the parameters handed to the plugin manager
executed_name(intent) ==
  IF intent.source # "none" THEN intent.name ELSE "conversation"

executed_parameters(intent, command) ==
  IF intent.source # "none" THEN intent.parameters
  ELSE [NoParams EXCEPT !.query = command, !.text = command]

turn_processed(self, command, draw, processed_input) ==
  IF processed_input.raised # ""
    THEN [response |-> ai_error(processed_input.raised), agent |-> self,
          appended |-> <<>>, invoked |-> <<>>, processed |-> processed_input]
  ELSE IF processed_input.intent.source # "none"
            /\ processed_input.intent.name = "shutdown"
    THEN [response |-> Response(TRUE, "Shutting down AstrOS Agent...",
                                processed_input.intent.name,
                                processed_input.intent.confidence, NoData),
          agent |-> shutdown(remembered(self, command, processed_input.intent)),
          appended |-> <<Message("user", command)>>,
          invoked |-> <<>>, processed |-> processed_input]
  ELSE turn_executed(self, command, draw, processed_input,
                     execute_intent(executed_name(processed_input.intent),
                                    executed_parameters(processed_input.intent,
                                                        command),
                                    registry_of(self), self.conversation_history,
                                    environment(self)))

\* _process_with_ai from "processed_input = await self.nlp_processor.process"
\* on: the dict returned, the agent after it, the messages it appended, the
\* plugins it invoked and the processed input
local_turn(self, command, reply, tagger, draw) ==
  turn_processed(self, command, draw,
                 processed_inputs[<<command, self.openai_client, reply, tagger>>])

-----------------------------------------------------------------------------
(* The state: one agent with its plugin manager, the turns in progress, a  *)
(* plugin manager and a calculator plugin driven directly                  *)

VARIABLES
  ai_components,        \* nlp_processor, plugin_manager and response_generator are set
  openai_client,        \* openai_client is set and is_available()
  system,               \* system is set
  fallback_to_local,    \* config.ai.fallback_to_local
  is_running,
  messages,             \* conversation_context.messages
  last_intent,          \* conversation_context.last_intent
  status,               \* plugin.status of every plugin object
  plugins,              \* PluginManager.plugins
  plugin_handlers,      \* PluginManager.plugin_handlers
  conversation_history, \* ConversationPlugin.conversation_history
  pc,                   \* where each call of process_command stands
  command,              \* its argument
  response,             \* what it returned or raised
  processed,            \* what nlp_processor.process met in the turn
  initialized,          \* initialize() has returned
  turns,                \* calls of process_command so far
  turn_appended,        \* the messages the last step appended
  turn_dropped,         \* the number of messages the last step removed
  calls,                \* calls of the plugin manager driven directly
  last_execution,       \* the last call of execute_intent driven directly
  load_order,           \* the plugins loaded since the dicts were empty, in order
  shut_down,            \* the plugins the last PluginManager.shutdown went over
  calc_parameters,      \* the parameters the calculator is given
  calc_result,          \* the ExecutionResult it returned
  matcher_text,         \* the text the local matcher is given
  matcher_outcomes,     \* what each of its calls returned, in order
  system_call,          \* the platform and the command execute_command is given
  system_result,        \* what it ran and what it returned
  entity_call,          \* the processor, the text and the extractors' behaviour
  entity_result,        \* the entities the processor extracted
  resolver_call,        \* the text, use_gpt, the client and its reply
  resolver_result,      \* the stages of _classify_intent_enhanced and its Intent
  adapter_call,         \* the method of OpenAIClient called and its arguments
  adapter_result        \* what it sent to the remote model and what it yielded

agent_vars ==
  <<ai_components, openai_client, system, fallback_to_local, is_running,
    messages, last_intent>>

registry_vars == <<status, plugins, plugin_handlers, conversation_history>>

turn_vars ==
  <<pc, command, response, processed, initialized, turns, turn_appended,
    turn_dropped>>

calc_vars == <<calc_parameters, calc_result>>

matcher_vars == <<matcher_text, matcher_outcomes>>

system_vars == <<system_call, system_result>>

entity_vars == <<entity_call, entity_result>>

resolver_vars == <<resolver_call, resolver_result>>

adapter_vars == <<adapter_call, adapter_result>>

harness_vars ==
  <<calls, last_execution, load_order, shut_down, calc_vars, matcher_vars, system_vars,
    entity_vars,
    resolver_vars, adapter_vars>>

vars == <<agent_vars, registry_vars, turn_vars, harness_vars>>

\* bounds of the model
MaxTurns == 2
MaxDraw == 4
MaxCalls == 3

\* the coroutines that may call process_command, and the one a caller that
\* awaits every call before the next one uses
Tasks == {"t1", "t2"}
Callers == {"t1"}
MaxNumbers == 3
MaxOperators == 2

NoResult == [none |-> TRUE]

\* nlp_processor.process has not been called in the turn
NoProcessed == [reply |-> None, raised |-> "", source |-> None]

\* the agent as an object, from the variables
self ==
  [nlp_processor |-> ai_components, plugin_manager |-> ai_components,
   response_generator |-> ai_components, openai_client |-> openai_client,
   system |-> system, is_running |-> is_running, messages |-> messages,
   last_intent |-> last_intent, status |-> status, plugins |-> plugins,
   plugin_handlers |-> plugin_handlers,
   conversation_history |-> conversation_history]

\* the fields a turn can change, from the agent after it
Becomes(agent) ==
  /\ is_running' = agent.is_running
  /\ messages' = agent.messages
  /\ last_intent' = agent.last_intent
  /\ plugins' = agent.plugins
  /\ plugin_handlers' = agent.plugin_handlers
  /\ conversation_history' = agent.conversation_history
  /\ UNCHANGED <<ai_components, openai_client, system, fallback_to_local, status>>

Constructed ==
  /\ ai_components = FALSE
  /\ openai_client = FALSE
  /\ system = FALSE
  /\ is_running = FALSE
  /\ messages = <<>>
  /\ last_intent = None
  /\ status = [p \in PluginObjects |-> "unloaded"]
  /\ plugins = EmptyDict
  /\ plugin_handlers = EmptyDict
  /\ conversation_history = <<>>
  /\ pc = [t \in Tasks |-> "idle"]
  /\ command = [t \in Tasks |-> None]
  /\ response = [t \in Tasks |-> NoResult]
  /\ processed = [t \in Tasks |-> NoProcessed]
  /\ initialized = FALSE
  /\ turns = 0
  /\ turn_appended = <<>>
  /\ turn_dropped = 0
  /\ calls = 0
  /\ last_execution = NoResult
  /\ load_order = <<>>
  /\ shut_down = NoResult

\* the calculator, the matcher and the system integration are not driven
CalcIdle ==
  /\ calc_parameters = NoParams
  /\ calc_result = NoResult

MatcherIdle ==
  /\ matcher_text = ""
  /\ matcher_outcomes = <<>>

SystemIdle ==
  /\ system_call = NoResult
  /\ system_result = NoResult

EntitiesIdle ==
  /\ entity_call = NoResult
  /\ entity_result = NoResult

ResolverIdle ==
  /\ resolver_call = NoResult
  /\ resolver_result = NoResult

AdapterIdle ==
  /\ adapter_call = NoResult
  /\ adapter_result = NoResult

Init ==
  /\ Constructed
  /\ fallback_to_local \in BOOLEAN
  /\ CalcIdle
  /\ MatcherIdle
  /\ SystemIdle
  /\ EntitiesIdle
  /\ ResolverIdle
  /\ AdapterIdle

\* the step appended these messages and left the agent with those
Remembers(appended, agent) ==
  /\ turn_appended' = appended
  /\ turn_dropped' = Len(messages) + Len(appended) - Len(agent.messages)

\* the step did not touch the messages
NoMessages ==
  /\ turn_appended' = <<>>
  /\ turn_dropped' = 0

RegistryBecomes(r) ==
  /\ status' = r.status
  /\ plugins' = r.plugins
  /\ plugin_handlers' = r.plugin_handlers

\* initialize(): the AI components are set up or the agent is left in basic
\* mode; the client is there when an API key is configured
Initialize(components, client, integration) ==
  /\ ~initialized
  /\ initialized' = TRUE
  /\ is_running' = TRUE
  /\ system' = integration
  /\ ai_components' = components
  /\ openai_client' = (components /\ client)
  /\ IF components
       THEN RegistryBecomes(load_core_plugins(registry_of(self), 1))
       ELSE UNCHANGED <<status, plugins, plugin_handlers>>
  /\ NoMessages
  /\ UNCHANGED <<fallback_to_local, messages, last_intent, conversation_history,
                 pc, command, response, processed, turns, harness_vars>>

\* what process met, for the record
Met(reply, processed_input) ==
  [reply |-> reply.kind, raised |-> processed_input.raised,
   source |-> processed_input.intent.source]

\* the turn ends with the outcome of local_turn
EndsLocally(t, reply, outcome, appended) ==
  /\ Becomes(outcome.agent)
  /\ response' = [response EXCEPT ![t] = outcome.response]
  /\ processed' = [processed EXCEPT ![t] = Met(reply, outcome.processed)]
  /\ pc' = [pc EXCEPT ![t] = "done"]
  /\ Remembers(appended \o outcome.appended, outcome.agent)

\* the turn ends with the outcome r and the dict given
Ends(t, r, returned_dict) ==
  /\ Becomes(r.agent)
  /\ response' = [response EXCEPT ![t] = returned_dict]
  /\ pc' = [pc EXCEPT ![t] = "done"]

\* process_command(c) is called
Called(t, c) ==
  /\ initialized
  /\ pc[t] = "idle"
  /\ turns < MaxTurns
  /\ turns' = turns + 1
  /\ command' = [command EXCEPT ![t] = c]
  /\ UNCHANGED <<initialized, harness_vars>>

EndsBasic(t, r) ==
  /\ Ends(t, r, r.response)
  /\ Remembers(<<>>, r.agent)

\* process_command without the AI components
ProcessBasic(t, c) ==
  /\ Called(t, c)
  /\ ~ai_components
  /\ EndsBasic(t, process_command_basic(self, c))
  /\ UNCHANGED processed

\* process_command with the client available: up to the request
\* generate_general_response sends
SendGeneral(t, c) ==
  /\ Called(t, c)
  /\ ai_components /\ openai_client
  /\ pc' = [pc EXCEPT ![t] = "general"]
  /\ NoMessages
  /\ UNCHANGED <<agent_vars, registry_vars, response, processed>>

\* process_command with the AI components and no client
ProcessLocally(t, c, tagger, draw) ==
  /\ Called(t, c)
  /\ ai_components /\ ~openai_client
  /\ EndsLocally(t, NoReply, local_turn(self, c, NoReply, tagger, draw), <<>>)

EndsGeneral(t, r) ==
  /\ Ends(t, r, r.response)
  /\ Remembers(r.appended, r.agent)

EndsInError(t, r) ==
  /\ Ends(t, r, ai_error(r.raised))
  /\ Remembers(r.appended, r.agent)

\* the turn goes on after _process_with_openai_general raised
GoesOn(t, tagger, draw, r) ==
  IF command[t] = None \/ tagger = "fails"
    THEN EndsLocally(t, NoReply,
                     local_turn(r.agent, command[t], NoReply, tagger, draw),
                     r.appended)
    ELSE /\ Becomes(r.agent)
         /\ Remembers(r.appended, r.agent)
         /\ pc' = [pc EXCEPT ![t] = "classify"]
         /\ UNCHANGED <<response, processed>>

\* generate_general_response returns, and the turn runs to its end
GeneralReturns(t, gpt_response) ==
  /\ pc[t] = "general"
  /\ gpt_response.kind = "returns"
  /\ command[t] # None
  /\ EndsGeneral(t, process_with_openai_general(self, command[t], gpt_response))
  /\ UNCHANGED <<command, processed, initialized, turns, harness_vars>>

\* the error returned whatever fallback_to_local is
GeneralFailsRegardless(t, gpt_response) ==
  /\ pc[t] = "general"
  /\ gpt_response.kind = "raises" \/ command[t] = None
  /\ EndsInError(t, process_with_openai_general(self, command[t], gpt_response))
  /\ UNCHANGED <<command, processed, initialized, turns, harness_vars>>

\* _process_with_openai_general raises and fallback_to_local is off
GeneralFails(t, gpt_response) ==
  /\ pc[t] = "general"
  /\ gpt_response.kind = "raises" \/ command[t] = None
  /\ ~fallback_to_local
  /\ EndsInError(t, process_with_openai_general(self, command[t], gpt_response))
  /\ UNCHANGED <<command, processed, initialized, turns, harness_vars>>

\* _process_with_openai_general raises and the turn goes on locally: to its
\* end if process sends no request, else up to the classification request
FallsBack(t, gpt_response, tagger, draw) ==
  /\ pc[t] = "general"
  /\ gpt_response.kind = "raises" \/ command[t] = None
  /\ fallback_to_local
  /\ GoesOn(t, tagger, draw,
            process_with_openai_general(self, command[t], gpt_response))
  /\ UNCHANGED <<command, initialized, turns, harness_vars>>

\* the remote model answers the classification request, and the turn runs
\* to its end
Classify(t, reply, draw) ==
  /\ pc[t] = "classify"
  /\ EndsLocally(t, reply, local_turn(self, command[t], reply, "ok", draw), <<>>)
  /\ UNCHANGED <<command, initialized, turns, harness_vars>>

\* the caller has the result
Return(t) ==
  /\ pc[t] = "done"
  /\ pc' = [pc EXCEPT ![t] = "idle"]
  /\ response' = [response EXCEPT ![t] = NoResult]
  /\ command' = [command EXCEPT ![t] = None]
  /\ processed' = [processed EXCEPT ![t] = NoProcessed]
  /\ NoMessages
  /\ UNCHANGED <<agent_vars, registry_vars, initialized, turns, harness_vars>>

Draws == 0..(MaxDraw - 1)

Next ==
  \/ \E components, client, integration \in BOOLEAN :
       Initialize(components, client, integration)
  \/ \E t \in Callers, c \in Commands : ProcessBasic(t, c)
  \/ \E t \in Callers, c \in Commands : SendGeneral(t, c)
  \/ \E t \in Callers, c \in Commands, tagger \in {"ok", "fails"}, draw \in Draws :
       ProcessLocally(t, c, tagger, draw)
  \/ \E t \in Callers, gpt_response \in GeneralReplies : GeneralReturns(t, gpt_response)
  \/ \E t \in Callers, gpt_response \in GeneralReplies : GeneralFails(t, gpt_response)
  \/ \E t \in Callers, gpt_response \in GeneralReplies, tagger \in {"ok", "fails"},
        draw \in Draws :
       FallsBack(t, gpt_response, tagger, draw)
  \/ \E t \in Callers, reply \in ClassificationReplies, draw \in Draws :
       Classify(t, reply, draw)
  \/ \E t \in Callers : Return(t)

Spec == Init /\ [][Next]_vars

\* process_command called by coroutines of one event loop: a coroutine runs
\* from one await to the next, and any coroutine may be called or resumed
\* while another one is suspended
NextOverlap ==
  \/ \E components, client, integration \in BOOLEAN :
       Initialize(components, client, integration)
  \/ \E t \in Tasks, c \in Commands : ProcessBasic(t, c)
  \/ \E t \in Tasks, c \in Commands : SendGeneral(t, c)
  \/ \E t \in Tasks, c \in Commands, tagger \in {"ok", "fails"}, draw \in Draws :
       ProcessLocally(t, c, tagger, draw)
  \/ \E t \in Tasks, gpt_response \in GeneralReplies : GeneralReturns(t, gpt_response)
  \/ \E t \in Tasks, gpt_response \in GeneralReplies : GeneralFails(t, gpt_response)
  \/ \E t \in Tasks, gpt_response \in GeneralReplies, tagger \in {"ok", "fails"},
        draw \in Draws :
       FallsBack(t, gpt_response, tagger, draw)
  \/ \E t \in Tasks, reply \in ClassificationReplies, draw \in Draws :
       Classify(t, reply, draw)
  \/ \E t \in Tasks : Return(t)

SpecOverlap == Init /\ [][NextOverlap]_vars

-----------------------------------------------------------------------------
(* A plugin manager driven directly: PluginManager() and then any calls of *)
(* initialize, load_plugin, execute_intent and shutdown                    *)

RegistryIntents ==
  {"calculation", "greeting", "translate", "conversation", "system_control"}

RegistryParameters ==
  {NoParams,
   [NoParams EXCEPT !.numbers = <<"10", "5">>, !.operators = <<"add">>],
   [NoParams EXCEPT !.query = "hello"]}

registry == [status |-> status, plugins |-> plugins,
             plugin_handlers |-> plugin_handlers]

CountedCall ==
  /\ calls < MaxCalls
  /\ calls' = calls + 1
  /\ UNCHANGED <<agent_vars, turn_vars, calc_vars, matcher_vars, system_vars,
                 entity_vars, resolver_vars, adapter_vars>>

InitRegistry ==
  /\ Constructed
  /\ fallback_to_local = TRUE
  /\ CalcIdle
  /\ MatcherIdle
  /\ SystemIdle
  /\ EntitiesIdle
  /\ ResolverIdle
  /\ AdapterIdle

ManagerInitialize ==
  /\ CountedCall
  /\ RegistryBecomes(load_core_plugins(registry, 1))
  /\ load_order' = load_order \o CorePlugins
  /\ UNCHANGED <<conversation_history, last_execution, shut_down>>

\* initialize() of a core plugin returns True; that of the other plugin may
\* return False or raise
LoadPlugin(plugin, outcome) ==
  /\ CountedCall
  /\ plugin \in ThirdPartyPlugins \/ outcome = "true"
  /\ RegistryBecomes(load_plugin(plugin, outcome, registry))
  /\ load_order' = IF outcome = "true" THEN Append(load_order, plugin)
                   ELSE load_order
  /\ UNCHANGED <<conversation_history, last_execution, shut_down>>

\* the call, the handler it found and what it returned, for the record
Executes(intent_name, parameters, env, plugin, r) ==
  /\ conversation_history' = r.history
  /\ last_execution' =
       [intent_name |-> intent_name, parameters |-> parameters,
        env |-> env, plugin |-> plugin,
        plugin_status |-> IF plugin = None THEN None ELSE status[plugin],
        history |-> conversation_history,
        raised |-> r.raised, result |-> r.result, invoked |-> r.invoked]

ExecuteIntent(intent_name, parameters, env) ==
  /\ CountedCall
  /\ Executes(intent_name, parameters, env, get(plugin_handlers, intent_name),
              execute_intent(intent_name, parameters, registry,
                             conversation_history, env))
  /\ UNCHANGED <<status, plugins, plugin_handlers, load_order, shut_down>>

\* shutdown() of a core plugin returns; that of the other plugins may raise
ManagerShutdown(raising) ==
  /\ CountedCall
  /\ RegistryBecomes(manager_shutdown(registry))
  /\ shut_down' =
       [loop |-> shutdown_loop(registry, raising),
        loaded |-> {load_order[k] : k \in 1..Len(load_order)}]
  /\ load_order' = <<>>
  /\ UNCHANGED <<conversation_history, last_execution>>

NextRegistry ==
  \/ ManagerInitialize
  \/ \E plugin \in PluginObjects, outcome \in {"true", "false", "raises"} :
       LoadPlugin(plugin, outcome)
  \/ \E intent_name \in RegistryIntents, parameters \in RegistryParameters,
        env \in Environments :
       ExecuteIntent(intent_name, parameters, env)
  \/ \E raising \in SUBSET ThirdPartyPlugins : ManagerShutdown(raising)

SpecRegistry == InitRegistry /\ [][NextRegistry]_vars

-----------------------------------------------------------------------------
(* ConversationPlugin.execute, called again and again on one plugin        *)

\* the calls of execute in one run
MaxExchanges == 12

ConversationCalls ==
  {[intent_name |-> "greeting", parameters |-> NoParams],
   [intent_name |-> "question",
    parameters |-> [NoParams EXCEPT !.query = "what is paris"]]}

InitConversation == InitRegistry

ConversationExecute(call) ==
  /\ calls < MaxExchanges
  /\ calls' = calls + 1
  /\ Executes(call.intent_name, call.parameters, "ok", "ConversationPlugin",
              execution("ConversationPlugin",
                        plugin_execute("ConversationPlugin", call.intent_name,
                                       call.parameters, conversation_history,
                                       "ok")))
  /\ UNCHANGED <<agent_vars, turn_vars, status, plugins, plugin_handlers,
                 load_order, shut_down, calc_vars, matcher_vars, system_vars,
                 entity_vars, resolver_vars, adapter_vars>>

NextConversation == \E call \in ConversationCalls : ConversationExecute(call)

SpecConversation == InitConversation /\ [][NextConversation]_vars

-----------------------------------------------------------------------------
(* A calculator plugin driven directly: execute on parameters of every     *)
(* shape                                                                   *)

CalcNumbers == {"10", "4", "0", "2.5"}

CalcOperators == {"add", "subtract", "multiply", "divide"}

CalcExpressions ==
  {"5/0", "10 / 0", "1/(2-2)", "5//0", "1/0.0", "(1+2)/(3-3)", "0/5",
   "2+3*4", "10/4", "(1+2)*3", "1+", "abc", "7", "2+a", " 2 + 3 ", "7;"}

SeqsUpTo(S, k) == UNION {[1..j -> S] : j \in 0..k}

CalcInputs ==
  {[NoParams EXCEPT !.numbers = numbers, !.operators = operators] :
     numbers \in SeqsUpTo(CalcNumbers, MaxNumbers),
     operators \in SeqsUpTo(CalcOperators, MaxOperators)}
  \cup {[NoParams EXCEPT !.expression = e] : e \in CalcExpressions}
  \cup {[NoParams EXCEPT !.numbers = <<"5", "0">>, !.operators = <<"divide">>,
                         !.expression = e] : e \in CalcExpressions}
  \cup {[NoParams EXCEPT !.original_text = e] : e \in {"what is 5/0", "hello"}}
  \cup {[NoParams EXCEPT !.numbers = <<"10", "5">>, !.operators = <<"add">>],
        [NoParams EXCEPT !.numbers = <<"20", "4">>, !.operators = <<"multiply">>],
        [NoParams EXCEPT !.numbers = <<"5", "0">>, !.operators = <<"divide">>],
        [NoParams EXCEPT !.numbers = <<"5", "abc">>, !.operators = <<"add">>]}

InitCalc ==
  /\ Constructed
  /\ fallback_to_local = TRUE
  /\ calc_parameters \in CalcInputs
  /\ calc_result = NoResult
  /\ MatcherIdle
  /\ SystemIdle
  /\ EntitiesIdle
  /\ ResolverIdle
  /\ AdapterIdle

CalculatorExecute ==
  /\ calc_result = NoResult
  /\ calc_result' = CalculatorPlugin_execute("calculation", calc_parameters)
  /\ UNCHANGED <<agent_vars, registry_vars, turn_vars, calls, last_execution,
                 load_order, shut_down,
                 calc_parameters, matcher_vars, system_vars, entity_vars,
                 resolver_vars, adapter_vars>>

NextCalc == CalculatorExecute

SpecCalc == InitCalc /\ [][NextCalc]_vars

-----------------------------------------------------------------------------
(* The local pattern matcher driven directly: _classify_intent_local       *)
(* called again and again on one text, while the conversation goes on      *)

MaxPhrases == 2

MatcherPhrases ==
  {"hello", "hello there", "help me", "what is 10 + 5", "show me system info",
   "list my files", "xyz"}

\* " ".join(phrases)
RECURSIVE joined(_)
joined(phrases) ==
  IF phrases = <<>> THEN ""
  ELSE IF Len(phrases) = 1 THEN phrases[1]
  ELSE phrases[1] \o " " \o joined(Tail(phrases))

MatcherTexts == {joined(ps) : ps \in SeqsUpTo(MatcherPhrases, MaxPhrases)}

\* what a turn of the conversation leaves in conversation_context.last_intent
MatcherContexts == {"greeting"}

\* classify_in_context for every text and conversation state above, as a
\* table that is evaluated once
matcher_calls ==
  [a \in MatcherTexts \X (MatcherContexts \cup {None}) |->
     classify_in_context(a[1], tagger_ents(a[1], 1), a[2])] @@ <<>>

InitMatcher ==
  /\ Constructed
  /\ fallback_to_local = TRUE
  /\ CalcIdle
  /\ SystemIdle
  /\ EntitiesIdle
  /\ ResolverIdle
  /\ AdapterIdle
  /\ matcher_text \in MatcherTexts
  /\ matcher_outcomes = <<>>

\* a call of _classify_intent_local(matcher_text, entities)
MatcherCall ==
  /\ Len(matcher_outcomes) < MaxCalls
  /\ matcher_outcomes' =
       Append(matcher_outcomes,
              [context |-> last_intent,
               intent |-> matcher_calls[<<matcher_text, last_intent>>]])
  /\ UNCHANGED <<agent_vars, registry_vars, turn_vars, calls, last_execution,
                 load_order, shut_down,
                 calc_vars, matcher_text, system_vars, entity_vars,
                 resolver_vars, adapter_vars>>

\* the first turn of the conversation, between two calls
ContextChanges(intent) ==
  /\ last_intent = None
  /\ last_intent' = intent
  /\ UNCHANGED <<ai_components, openai_client, system, fallback_to_local,
                 is_running, messages, registry_vars, turn_vars, harness_vars>>

NextMatcher ==
  \/ MatcherCall
  \/ \E intent \in MatcherContexts : ContextChanges(intent)

SpecMatcher == InitMatcher /\ [][NextMatcher]_vars

-----------------------------------------------------------------------------
(* The entity extraction of the two processors, called on its own.         *)

EntityTexts ==
  {"calculate 127 * 23", "5 plus 5", "open notes.txt", "version 2.5",
   "call Bob", "hello", "a1 b2"}

\* the replies of the remote model to an entity extraction request
EntityReplies ==
  {Extracted("raises", <<>>),
   Extracted("malformed", <<>>),
   Extracted("list", <<>>),
   Extracted("json", <<>>),
   Extracted("json", <<[type |-> "numbers", texts |-> <<"127", "127">>]>>),
   Extracted("json", <<[type |-> "numbers", texts |-> <<"5">>]>>),
   Extracted("json", <<[type |-> "person", texts |-> <<"Bob">>],
                       [type |-> "org", texts |-> <<"bob">>]>>)}

\* "nlp" is EnhancedNLPProcessor of nlp.py, "nlp_engine" the NLPProcessor of
\* nlp_engine.py
EntityCalls ==
  [processor : {"nlp", "nlp_engine"},
   text : EntityTexts,
   tagger : {"ok", "fails"},
   remote_available : BOOLEAN,
   gpt_entities : EntityReplies]

InitEntities ==
  /\ Constructed
  /\ fallback_to_local = TRUE
  /\ CalcIdle
  /\ MatcherIdle
  /\ SystemIdle
  /\ ResolverIdle
  /\ AdapterIdle
  /\ entity_call \in EntityCalls
  /\ entity_result = NoResult

ExtractEntities ==
  /\ entity_result = NoResult
  /\ entity_result' =
       IF entity_call.processor = "nlp"
       THEN extract_entities_enhanced(entity_call.text, entity_call.tagger,
                                      entity_call.remote_available,
                                      extract_entities_advanced(
                                        entity_call.gpt_entities))
       ELSE [raised |-> "",
             entities |-> extract_entities(entity_call.text, entity_call.tagger)]
  /\ UNCHANGED <<agent_vars, registry_vars, turn_vars, calls, last_execution,
                 load_order, shut_down,
                 calc_vars, matcher_vars, system_vars, entity_call,
                 resolver_vars, adapter_vars>>

NextEntities == ExtractEntities

SpecEntities == InitEntities /\ [][NextEntities]_vars

-----------------------------------------------------------------------------
(* SystemIntegration.execute_command, called on its own                    *)

SystemCommands ==
  {"", " ", "date", "Date now", "time", "whoami", "pwd", " ls -la /etc",
   "ls; rm x", "LS", "dir", "uptime", "rm x", "lsx", "cat ls", "sudo date",
   "python", None}

SystemCalls == [system : {"Windows", "Linux"}, command : SystemCommands]

ProcessOutcomes == {"zero", "nonzero", "timeout", "raises"}

InitSystem ==
  /\ Constructed
  /\ fallback_to_local = TRUE
  /\ CalcIdle
  /\ MatcherIdle
  /\ EntitiesIdle
  /\ ResolverIdle
  /\ AdapterIdle
  /\ system_call \in SystemCalls
  /\ system_result = NoResult

ExecuteCommand(outcome) ==
  /\ system_result = NoResult
  /\ system_result' =
       execute_command(system_call.system, system_call.command, outcome)
  /\ UNCHANGED <<agent_vars, registry_vars, turn_vars, calls, last_execution,
                 load_order, shut_down,
                 calc_vars, matcher_vars, system_call, entity_vars,
                 resolver_vars, adapter_vars>>

NextSystem == \E outcome \in ProcessOutcomes : ExecuteCommand(outcome)

SpecSystem == InitSystem /\ [][NextSystem]_vars

-----------------------------------------------------------------------------
(* _classify_intent_enhanced, called on its own                            *)

\* the largest confidence the remote model reports, in tenths
MaxConfidence == 10

ResolverTexts == {"hello", "xyz"}

\* "book_flight" is a name that is no key of the pattern table
ResolverReplies ==
  {Reply("raises", "", 0), Reply("malformed", "", 0)}
    \cup {Reply("json", name, confidence) :
            name \in {"greeting", "shutdown", "book_flight"},
            confidence \in 0..MaxConfidence}

ResolverCalls ==
  [text : ResolverTexts, use_gpt : BOOLEAN, available : BOOLEAN,
   reply : ResolverReplies]

InitResolver ==
  /\ Constructed
  /\ fallback_to_local = TRUE
  /\ CalcIdle
  /\ MatcherIdle
  /\ SystemIdle
  /\ AdapterIdle
  /\ EntitiesIdle
  /\ resolver_call \in ResolverCalls
  /\ resolver_result = NoResult

Resolve ==
  /\ resolver_result = NoResult
  /\ resolver_result' =
       resolve(resolver_call.text, tagger_ents(resolver_call.text, 1),
               remote_enabled(resolver_call.use_gpt, resolver_call.available),
               resolver_call.reply)
  /\ UNCHANGED <<agent_vars, registry_vars, turn_vars, calls, last_execution,
                 load_order, shut_down,
                 calc_vars, matcher_vars, system_vars, entity_vars,
                 resolver_call, adapter_vars>>

NextResolver == Resolve

SpecResolver == InitResolver /\ [][NextResolver]_vars

-----------------------------------------------------------------------------
(* The methods of OpenAIClient, called on their own                        *)

\* the longest conversation history a call is given
MaxHistory == 3

AdapterInputs == {"hi", "what's the weather like in Paris tomorrow morning?"}

HistoryMessages ==
  {Message("user", "hi"),
   Message("assistant", "Hello! How can I help you today?"),
   Message("user", "please organize the files in my downloads folder by type")}

Histories == SeqsUpTo(HistoryMessages, MaxHistory)

SystemPrompts == {None, "Be brief."}

\* config.ai.context_window
ContextWindows == {20, 60, 400}

Encoders == {"none", "characters"}

Completions ==
  {[kind |-> "raises", content |-> "", finish_reason |-> ""],
   [kind |-> "returns", content |-> " Hello! ", finish_reason |-> "stop"],
   [kind |-> "returns", content |-> "Hello", finish_reason |-> "length"]}

AdapterCalls ==
  [op : {"generate_response"}, available : {TRUE}, encoder : Encoders,
   user_input : AdapterInputs, context : Histories,
   system_prompt : SystemPrompts, context_window : ContextWindows,
   completion : {c \in Completions : c.finish_reason = "stop"}]
  \cup [op : {"generate_response"}, available : BOOLEAN, encoder : {"none"},
        user_input : {"hi"}, context : {<<>>}, system_prompt : {None},
        context_window : {400}, completion : Completions]
  \cup [op : {"_trim_messages"}, encoder : Encoders,
        messages : {<<Message("system", p)>> \o h \o <<Message("user", u)>> :
                      p \in {"Be brief.", default_system}, h \in Histories,
                      u \in AdapterInputs},
        target_tokens : {k \div 2 : k \in ContextWindows}]
  \cup [op : {"classify_intent_advanced"}, available : BOOLEAN,
        reply : ClassificationReplies]
  \cup [op : {"extract_entities_advanced"}, available : BOOLEAN,
        reply : EntityReplies]
  \cup [op : {"process"}, text : {"hello", "calculate 127 * 23", None},
        use_gpt : BOOLEAN, available : BOOLEAN, tagger : {"ok", "fails"}]

InitAdapter ==
  /\ Constructed
  /\ fallback_to_local = TRUE
  /\ CalcIdle
  /\ MatcherIdle
  /\ SystemIdle
  /\ EntitiesIdle
  /\ ResolverIdle
  /\ adapter_call \in AdapterCalls
  /\ adapter_result = NoResult

adapter_method(call) ==
  CASE call.op = "generate_response" ->
         OpenAIClient_generate_response(call.available, call.encoder,
                                        call.user_input, call.context,
                                        call.system_prompt, call.context_window,
                                        call.completion)
    [] call.op = "_trim_messages" ->
         Adapted("", <<>>,
                 trim_messages(call.messages, call.target_tokens, call.encoder))
    [] call.op = "classify_intent_advanced" ->
         OpenAIClient_classify_intent_advanced(call.available, call.reply)
    [] call.op = "process" ->
         Adapted("", process_requests(call.text, call.use_gpt, call.available,
                                      call.tagger), None)
    [] OTHER ->
         OpenAIClient_extract_entities_advanced(call.available, call.reply)

AdapterCall ==
  /\ adapter_result = NoResult
  /\ adapter_result' = adapter_method(adapter_call)
  /\ UNCHANGED <<agent_vars, registry_vars, turn_vars, calls, last_execution,
                 load_order, shut_down,
                 calc_vars, matcher_vars, system_vars, entity_vars,
                 resolver_vars, adapter_call>>

NextAdapter == AdapterCall

SpecAdapter == InitAdapter /\ [][NextAdapter]_vars

-----------------------------------------------------------------------------
(* The two requests of the processor of nlp.py to an available client, the *)
(* entity extraction and the classification, with the replies to them     *)

RemoteOutputReplies ==
  {Reply("raises", "", 0), Reply("malformed", "", 0),
   Reply("json", "shutdown", 6), Reply("json", "shutdown", 9)}

InitRemoteOutput ==
  /\ Constructed
  /\ fallback_to_local = TRUE
  /\ CalcIdle
  /\ MatcherIdle
  /\ SystemIdle
  /\ AdapterIdle
  /\ entity_call \in {c \in EntityCalls : /\ c.processor = "nlp"
                                         /\ c.tagger = "ok"
                                         /\ c.remote_available}
  /\ entity_result = NoResult
  /\ resolver_call \in {c \in ResolverCalls : /\ c.use_gpt /\ c.available
                                             /\ c.reply \in RemoteOutputReplies}
  /\ resolver_result = NoResult

NextRemoteOutput ==
  \/ ExtractEntities
  \/ Resolve

SpecRemoteOutput == InitRemoteOutput /\ [][NextRemoteOutput]_vars

-----------------------------------------------------------------------------
(* Properties of a turn of the agent, checked under Spec                   *)

\* a turn of task t has ended and its result is not yet collected
Done(t) == pc[t] = "done"

\* s is what is left of t when a number of t's first elements are dropped
IsSuffix(s, t) ==
  Len(s) <= Len(t) /\ s = SubSeq(t, Len(t) - Len(s) + 1, Len(t))

\* C1: every call of process_command returns a result with a Boolean success
\* and a non-empty message and no exception leaves the call, also when the
\* except clause of process_command itself runs
C1_ReturnsSuccessAndMessage ==
  \A t \in Tasks :
    Done(t) =>
      /\ response[t].raised = ""
      /\ response[t].success \in BOOLEAN
      /\ response[t].message # ""

\* C2: a turn whose text no stage resolved to an intent ends with the
\* conversation handler's reply and success = true, never with an error
C2_UnresolvedTurnSucceeds ==
  \A t \in Tasks :
    Done(t) /\ processed[t].raised = "" /\ processed[t].source = "none" =>
      /\ response[t].raised = ""
      /\ response[t].success
      /\ response[t].intent = "conversation"

\* C3 as stated: when the remote classification raises during process, the
\* call returns normally with an Intent whose source is 'local' or 'fallback'
C3_RemoteFailureYieldsIntent ==
  \A t \in Tasks :
    Done(t) /\ processed[t].reply = "raises" =>
      /\ processed[t].raised = ""
      /\ processed[t].source \in {"local", "fallback"}

\* C3: when the remote classification raises during process, the call returns
\* normally with what process yields for the same text when it sends no
\* request at all: an Intent of source 'local' where a local pattern matches
\* and no Intent where none does, never one of source 'gpt'
C3_RemoteFailureLeavesLocalOutcome ==
  \A t \in Tasks :
    Done(t) /\ processed[t].reply = "raises" =>
      /\ processed[t].raised = ""
      /\ processed[t].source \in {"local", "none"}
      /\ processed[t].source =
           processed_inputs[<<command[t], FALSE, NoReply, "ok">>].intent.source

\* a turn in which the remote classification raised and a local pattern matched
C3_RemoteFailureSeen ==
  \E t \in Tasks :
    /\ Done(t)
    /\ processed[t].reply = "raises"
    /\ processed[t].source = "local"
    /\ command[t] = "hello"

\* C4: after any sequence of completed turns through any tier, messages is
\* never longer than conversation_memory_size
C4_MessagesWithinMemorySize ==
  (\A t \in Tasks : pc[t] \in {"idle", "done"}) =>
    Len(messages) <= conversation_memory_size

C6_ShutdownStopsAgent ==
  \A t \in Tasks :
    Done(t) /\ command[t] = "shutdown" =>
      /\ response[t].raised = ""
      /\ response[t].success
      /\ ~is_running

\* C7: with no remote client, the AI components set up, the tagger working
\* and the calculator registered, the turn 'what is 100 divided by 4'
\* resolves to calculation and succeeds with data.result 25.0 and a message
\* that contains '25'
C7_HundredDividedByFour ==
  \A t \in Tasks :
    /\ Done(t)
    /\ command[t] = "what is 100 divided by 4"
    /\ ai_components /\ ~openai_client
    /\ processed[t].source # "fallback"
    /\ "calculation" \in DOMAIN plugin_handlers
    => /\ response[t].raised = ""
       /\ response[t].success
       /\ response[t].intent = "calculation"
       /\ processed[t].source = "local"
       /\ response[t].data.result = Num(25, 1, TRUE)
       /\ contains(response[t].message, "25")

\* the turn has run on the local path with the calculator registered
C7_HundredDividedByFourSeen ==
  \E t \in Tasks :
    /\ Done(t)
    /\ command[t] = "what is 100 divided by 4"
    /\ ai_components /\ ~openai_client
    /\ processed[t].source = "local"
    /\ "calculation" \in DOMAIN plugin_handlers
    /\ response[t].intent = "calculation"

-----------------------------------------------------------------------------
(* Properties of PluginManager.execute_intent, checked under SpecRegistry  *)

\* what the handler's execute does on the recorded call
recorded_execute ==
  plugin_execute(last_execution.plugin, last_execution.intent_name,
                 last_execution.parameters, last_execution.history,
                 last_execution.env)

\* C8: execute_intent never raises; with no plugin registered for the intent,
\* or one whose status is not LOADED, it returns an error result and invokes
\* nothing; otherwise it invokes that plugin's execute exactly once, returns
\* its result unchanged, and turns an exception it raises into an error result
C8_ExecuteIntentContract ==
  last_execution # NoResult =>
    /\ last_execution.raised = FALSE
    /\ last_execution.result.success \in BOOLEAN
    /\ IF last_execution.plugin = None
         THEN /\ ~last_execution.result.success
              /\ last_execution.result.error # None
              /\ last_execution.invoked = <<>>
       ELSE IF last_execution.plugin_status # "loaded"
         THEN /\ ~last_execution.result.success
              /\ last_execution.result.error # None
              /\ last_execution.invoked = <<>>
       ELSE /\ last_execution.invoked = <<last_execution.plugin>>
            /\ IF recorded_execute.raised # ""
                 THEN /\ ~last_execution.result.success
                      /\ last_execution.result.error = recorded_execute.raised
                 ELSE last_execution.result = recorded_execute.result

\* a call that found a registered plugin whose status is not LOADED
C8_UnavailablePluginSeen ==
  /\ last_execution # NoResult
  /\ last_execution.plugin # None
  /\ last_execution.plugin_status # "loaded"
  /\ ~last_execution.result.success

-----------------------------------------------------------------------------
(* Properties of CalculatorPlugin.execute, checked under SpecCalc          *)

\* execute took the (numbers, operators) branch
NumbersPath ==
  Len(calc_parameters.numbers) >= 2 /\ calc_parameters.operators # <<>>

\* the number of operators the loop applies
Applied ==
  IF Len(calc_parameters.operators) < Len(calc_parameters.numbers) - 1
    THEN Len(calc_parameters.operators)
    ELSE Len(calc_parameters.numbers) - 1

\* the texts that are a zero
ZeroTexts == {"0", "0.0"}

\* every number the loop reads is one, and no division it does is by zero
FoldDefined ==
  /\ \A k \in 1..(Applied + 1) : py_float(calc_parameters.numbers[k]).ok
  /\ \A k \in 1..Applied :
       calc_parameters.operators[k] \in CalcOperators
       /\ ~(calc_parameters.operators[k] = "divide"
            /\ calc_parameters.numbers[k + 1] \in ZeroTexts)

\* acc op b
Combined(op, acc, b) ==
  CASE op = "add" -> num_add(acc, b)
    [] op = "subtract" -> num_sub(acc, b)
    [] op = "multiply" -> num_mul(acc, b)
    [] op = "divide" -> num_div(acc, b)

\* ((numbers[1] op1 numbers[2]) op2 numbers[3]) ... up to the k-th operator
RECURSIVE LeftToRight(_)
LeftToRight(k) ==
  IF k = 0 THEN py_float(calc_parameters.numbers[1]).val
  ELSE Combined(calc_parameters.operators[k], LeftToRight(k - 1),
                py_float(calc_parameters.numbers[k + 1]).val)

\* C9: on the numbers path the result is the fold from the left, operators[i]
\* applied to the running result and numbers[i+1], with no precedence of
\* operators; ['10','5'] with ['add'] gives 15.0 and ['20','4'] with
\* ['multiply'] gives 80.0
C9_NumbersLeftToRight ==
  calc_result # NoResult /\ NumbersPath /\ FoldDefined =>
    /\ calc_result.success
    /\ calc_result.data.result = LeftToRight(Applied)
    /\ (calc_parameters.numbers = <<"10", "5">>
        /\ calc_parameters.operators = <<"add">>
          => calc_result.data.result = Num(15, 1, TRUE))
    /\ (calc_parameters.numbers = <<"20", "4">>
        /\ calc_parameters.operators = <<"multiply">>
          => calc_result.data.result = Num(80, 1, TRUE))

\* (10 - 4) * 2.5 is 15.0, where precedence would give 0.0
C9_PrecedenceIgnoredSeen ==
  /\ calc_result # NoResult
  /\ calc_parameters.numbers = <<"10", "4", "2.5">>
  /\ calc_parameters.operators = <<"subtract", "multiply">>
  /\ calc_result.success
  /\ calc_result.data.result = Num(15, 1, TRUE)

\* an operator the loop applies divides by a zero, and the numbers before it
\* are numbers
ZeroDivisor ==
  \E k \in 1..Applied :
    /\ calc_parameters.operators[k] = "divide"
    /\ calc_parameters.numbers[k + 1] \in ZeroTexts
    /\ \A j \in 1..k : py_float(calc_parameters.numbers[j]).ok
    /\ \A j \in 1..k : calc_parameters.operators[j] \in CalcOperators

\* expressions in which a division has a zero divisor
ZeroDivisions ==
  {"5/0", "10 / 0", "1/(2-2)", "5//0", "1/0.0", "(1+2)/(3-3)"}

\* the error names a division by zero
MentionsDivisionByZero(error) ==
  error # None /\ contains(lower(error), "division")
               /\ contains(lower(error), "by zero")

\* C10: a division by zero on the numbers path or in the expression that is
\* evaluated ends execute with success = false and an error that mentions
\* the division by zero; no exception leaves execute
C10_DivisionByZeroReported ==
  calc_result # NoResult =>
    /\ calc_result.success \in BOOLEAN
    /\ (NumbersPath /\ ZeroDivisor =>
          ~calc_result.success /\ MentionsDivisionByZero(calc_result.error))
    /\ (~NumbersPath /\ calc_parameters.expression \in ZeroDivisions =>
          ~calc_result.success /\ MentionsDivisionByZero(calc_result.error))

\* a division by zero met on the numbers path after a step that went well
C10_NumbersDivisionByZeroSeen ==
  /\ calc_result # NoResult
  /\ calc_parameters.numbers = <<"10", "4", "0">>
  /\ calc_parameters.operators = <<"add", "divide">>
  /\ ~calc_result.success
  /\ calc_result.error = "Division by zero"

-----------------------------------------------------------------------------
(* Properties of the local pattern matcher, checked under SpecMatcher      *)

\* no phrase of the pattern table occurs in the text
NoPhraseIn(text) ==
  \A k \in 1..Len(intent_patterns) :
    \A j \in 1..Len(intent_patterns[k].patterns) :
      ~contains(lower(text), lower(intent_patterns[k].patterns[j]))

\* the positions of the phrases that occur in the case-folded text, case
\* ignored
MatchedPhrases(text_lower, phrases) ==
  {j \in 1..Len(phrases) : contains(text_lower, lower(phrases[j]))}

\* the sum of 0.2 * words + 0.8, in tenths, over the phrases at the positions
RECURSIVE SumOfWeights(_, _)
SumOfWeights(phrases, positions) ==
  IF positions = {} THEN 0
  ELSE LET j == CHOOSE x \in positions : TRUE
       IN  (2 * Len(split(phrases[j])) + 8)
             + SumOfWeights(phrases, positions \ {j})

\* the sums of a text for every entry of the pattern table
SumsOf(text_lower) ==
  [k \in 1..Len(intent_patterns) |->
     SumOfWeights(intent_patterns[k].patterns,
                  MatchedPhrases(text_lower, intent_patterns[k].patterns))]

\* for every text the matcher is given, the sum for every entry of the
\* pattern table; evaluated once
phrase_sums == [text \in MatcherTexts |-> SumsOf(lower(text))] @@ <<>>

\* NoPhraseIn for every text the matcher is given
no_phrase_in ==
  [text \in MatcherTexts |->
     \A k \in 1..Len(intent_patterns) : phrase_sums[text][k] = 0] @@ <<>>

\* C11: the local matcher returns an Intent only with a score above 0.5, and
\* for a text in which no registered phrase occurs it returns no Intent at
\* all, never an Intent of confidence zero
C11_NoMatchIsNoIntent ==
  \A k \in 1..Len(matcher_outcomes) :
    /\ matcher_outcomes[k].intent # NoIntent =>
         /\ matcher_outcomes[k].intent.source = "local"
         /\ matcher_outcomes[k].intent.name \in possible_intents
         /\ matcher_outcomes[k].intent.confidence > LocalFloor
    /\ no_phrase_in[matcher_text] => matcher_outcomes[k].intent = NoIntent

\* the matcher was called on a text without any registered phrase
C11_NoMatchSeen ==
  /\ matcher_text = "xyz xyz"
  /\ no_phrase_in[matcher_text]
  /\ matcher_outcomes # <<>>
  /\ matcher_outcomes[1].intent = NoIntent

C15_TestedTextsResolve ==
  \A k \in 1..Len(matcher_outcomes) :
    /\ matcher_text = "what is 10 + 5" =>
         matcher_outcomes[k].intent.name = "calculation"
    /\ matcher_text = "show me system info" =>
         matcher_outcomes[k].intent.name = "system_control"
    /\ matcher_text = "hello" => matcher_outcomes[k].intent.name = "greeting"
    /\ matcher_text = "help me" => matcher_outcomes[k].intent.name = "help"
    /\ matcher_text = "list my files" =>
         matcher_outcomes[k].intent.name = "file_management"


\* C12: the entity list a processor returns never holds two entities whose
\* texts are equal ignoring case: an entity of a later source is appended only
\* if no entity collected so far has its text, so "127", found by the numeric
\* rule and by the tagger, appears once.
C12_NoDuplicateEntities ==
  (entity_result # NoResult /\ entity_result.raised = "") =>
    \A j, k \in 1..Len(entity_result.entities) :
      j < k => lower(entity_result.entities[j].text)
                 # lower(entity_result.entities[k].text)


\* C14: every result process_command returns on an initialized agent has the
\* keys 'success', 'message', 'timestamp' and 'intent', whichever path
\* produced it: the remote path, the local path, the basic mode or an error
\* return.
C14_ResultHasIntentKey ==
  \A t \in Tasks :
    (Done(t) /\ response[t].raised = "") =>
      {"success", "message", "timestamp", "intent"}
        \subseteq response_keys(response[t])


\* a call of process_command that is suspended at an await
Suspended(t) == pc[t] \in {"general", "classify"}

\* C16: the turns are serialized: while a call of process_command is
\* suspended at an await, a second call performs no step until the first has
\* returned.
C16_TurnsSerialized ==
  [][\A t, u \in Tasks : (t # u /\ Suspended(u)) => pc'[t] = pc[t]]_vars


\* shutdown() has run on the initialized agent
ShutDown == initialized /\ ~is_running

\* C17: shutdown drains: once shutdown() has run, process_command accepts
\* no new turn (a later turn changes no conversation memory and executes no
\* plugin), the conversation memory stays empty and is_running stays false.
C17_ShutdownDrains ==
  [][ShutDown =>
       /\ messages' = <<>>
       /\ conversation_history' = conversation_history
       /\ ~is_running']_vars


\* the allow-list and its argv for each name, as the specification gives them
AllowedArgv ==
  [date |-> {<<"date">>}, time |-> {<<"date">>}, whoami |-> {<<"whoami">>},
   pwd |-> {<<"pwd">>}, ls |-> {<<"ls", "-la">>},
   dir |-> {<<"dir">>, <<"ls", "-la">>},
   uptime |-> {<<"uptime">>, <<"systeminfo">>}]

\* the first token of the text is a name of the allow-list
FirstTokenAllowed(text) ==
  /\ text # None
  /\ split(lower(strip(text))) # <<>>
  /\ split(lower(strip(text)))[1] \in DOMAIN AllowedArgv

\* C18: execute_command runs a process only for a command whose first token
\* is in the fixed allow-list, and the argv it runs is the argv the allow-list
\* holds for that token, never the text of the user; for any other input,
\* the empty one included, it returns success = false and runs no process.
C18_OnlyAllowListedArgv ==
  system_result # NoResult =>
    IF FirstTokenAllowed(system_call.command)
      THEN system_result.argv
             \in AllowedArgv[split(lower(strip(system_call.command)))[1]]
      ELSE system_result.argv = <<>> /\ ~system_result.success

\* a text that starts with an allowed name and goes on was given, and the
\* process ran
C18_ArgumentsDroppedSeen ==
  /\ system_result # NoResult
  /\ system_call.command = " ls -la /etc"
  /\ system_result.argv = <<"ls", "-la">>
  /\ system_result.success


\* _classify_intent_enhanced was called with the remote model enabled and
\* available, and the model answered with a JSON object
RemoteAnswered ==
  /\ resolver_result # NoResult
  /\ resolver_call.use_gpt /\ resolver_call.available
  /\ resolver_call.reply.kind = "json"

\* C19: a classification of the remote model is accepted, and the Intent has
\* source 'gpt', exactly when its confidence is strictly greater than 0.6; at
\* 0.6 or below it is discarded and the Intent is the local matcher's.
C19_RemoteAcceptedAboveFloor ==
  RemoteAnswered =>
    IF resolver_call.reply.confidence > 6
      THEN /\ resolver_result.intent.source = "gpt"
           /\ resolver_result.intent.name = resolver_call.reply.intent
           /\ resolver_result.intent.confidence = resolver_call.reply.confidence
      ELSE /\ resolver_result.intent.source # "gpt"
           /\ resolver_result.intent =
                classify_intent_local(resolver_call.text,
                                      tagger_ents(resolver_call.text, 1))

\* the remote model answered with confidence 0.6 and the local matcher's
\* Intent was returned
C19_DiscardedAtFloorSeen ==
  /\ RemoteAnswered
  /\ resolver_call.reply.confidence = 6
  /\ resolver_call.reply.intent = "shutdown"
  /\ resolver_result.intent.source = "local"
  /\ resolver_result.intent.name = "greeting"

\* C20: the resolver goes START -> REMOTE_ATTEMPT? -> LOCAL_ATTEMPT? ->
\* RESOLVED | UNRESOLVED: the remote attempt is made at most once and only
\* when the adapter is available and the caller has not disabled it, and the
\* local matcher runs exactly when no remote result was accepted, after the
\* remote attempt.
C20_ResolverStages ==
  resolver_result # NoResult =>
    /\ resolver_result.stages
         \in {<<"remote">>, <<"remote", "local">>, <<"local">>}
    /\ resolver_result.stages[1] = "remote" =>
         resolver_call.use_gpt /\ resolver_call.available
    /\ resolver_result.stages[Len(resolver_result.stages)] = "local"
         <=> resolver_result.intent.source # "gpt"

\* the remote attempt was made and discarded, the local matcher ran after it
\* and found nothing
C20_BothStagesUnresolvedSeen ==
  /\ resolver_result # NoResult
  /\ resolver_result.stages = <<"remote", "local">>
  /\ resolver_result.intent.source = "none"
  /\ resolver_call.text = "xyz"


\* the result that surfaces the failure of the remote request
TransportError == ai_error("remote request failed")

\* C21 as stated: a failure of the remote tier during a turn is never
\* surfaced to the user as an error; the turn's result is the one of the
\* local pipeline.
C21_RemoteFailureNeverSurfaced ==
  \A t \in Tasks : Done(t) => response[t] # TransportError

\* C21: with fallback_to_local set, a failure of the remote path is not
\* surfaced: the turn goes on with nlp_processor.process, and where the local
\* matcher resolved the command the result carries the intent the matcher
\* yields for it; the failure is returned as the error only with
\* fallback_to_local unset.
C21_RemoteFailureRecoveredWithFallback ==
  \A t \in Tasks :
    (Done(t) /\ openai_client) =>
      /\ response[t] = TransportError => ~fallback_to_local
      /\ processed[t] # NoProcessed => fallback_to_local
      /\ processed[t].source = "local" =>
           /\ response[t].raised = ""
           /\ response[t].intent =
                processed_inputs[<<command[t], FALSE, NoReply, "ok">>].intent.name

\* the remote path raised, the turn fell back and the local matcher resolved
\* the command
C21_FellBackSeen ==
  \E t \in Tasks :
    /\ Done(t) /\ openai_client /\ fallback_to_local
    /\ processed[t].source = "local"
    /\ processed[t].reply = "malformed"
    /\ command[t] = "hello"
    /\ response[t].intent = "greeting"


\* C22: malformed remote output is handled like a transport failure: when
\* the reply to a classification request is no valid JSON the resolver
\* returns what the local matcher yields for the text, an Intent or no match,
\* and when the reply to an entity extraction request is no valid JSON the
\* extraction returns the locally collected entities only.
C22_MalformedReplyIsDiscarded ==
  /\ (resolver_result # NoResult /\ resolver_call.reply.kind = "malformed") =>
       /\ resolver_result.intent =
            classify_intent_local(resolver_call.text,
                                  tagger_ents(resolver_call.text, 1))
       /\ resolver_result.stages = <<"remote", "local">>
  /\ (entity_result # NoResult /\ entity_call.gpt_entities.kind = "malformed") =>
       /\ entity_result.raised = ""
       /\ entity_result.entities = tagger_ents(entity_call.text, 1)

\* both requests were answered with what is no JSON; the matcher resolved
\* the text and the tagger's entity was returned
C22_BothMalformedSeen ==
  /\ resolver_result # NoResult /\ entity_result # NoResult
  /\ resolver_call.reply.kind = "malformed"
  /\ entity_call.gpt_entities.kind = "malformed"
  /\ resolver_call.text = "hello"
  /\ resolver_result.intent.source = "local"
  /\ entity_call.text = "5 plus 5"
  /\ Len(entity_result.entities) = 2


\* the entry of the pattern table with the name given
EntryOf(name) ==
  CHOOSE k \in 1..Len(intent_patterns) : intent_patterns[k].name = name

\* C23: the local score of an intent is the sum, over exactly the registered
\* phrases of the intent that occur in the input as a substring, case
\* ignored, of 0.2 * (words of the phrase) + 0.8, not divided by the number of
\* phrases; 'hello there' scores at least 0.8 for greeting.
C23_ScoreIsSumOfMatchedWeights ==
  Len(matcher_outcomes) = 1 =>
    /\ \A k \in 1..Len(intent_patterns) :
         intent_score(lower(matcher_text), intent_patterns[k].patterns, 1)
           = phrase_sums[matcher_text][k]
    /\ matcher_outcomes[1].intent # NoIntent =>
         matcher_outcomes[1].intent.confidence
           = phrase_sums[matcher_text][EntryOf(matcher_outcomes[1].intent.name)]
    /\ matcher_text = "hello there" =>
         /\ matcher_outcomes[1].intent.name = "greeting"
         /\ matcher_outcomes[1].intent.confidence >= 8

\* the matcher was called on a text in which two phrases of one intent
\* occur, one of two words and one of one word
C23_TwoPhrasesSummedSeen ==
  /\ Len(matcher_outcomes) = 1
  /\ matcher_text = "show me system info help me"
  /\ phrase_sums[matcher_text][EntryOf("help")] = 12 + 10
  /\ matcher_outcomes[1].intent.name = "help"
  /\ matcher_outcomes[1].intent.confidence = 22

\* the highest sum of the text
HighestSum(text) ==
  CHOOSE m \in {phrase_sums[text][k] : k \in 1..Len(intent_patterns)} :
    \A k \in 1..Len(intent_patterns) : phrase_sums[text][k] <= m

\* the first entry of the pattern table with the highest sum
FirstHighest(text) ==
  CHOOSE k \in 1..Len(intent_patterns) :
    /\ phrase_sums[text][k] = HighestSum(text)
    /\ \A j \in 1..(k - 1) : phrase_sums[text][j] < HighestSum(text)

C25_IntentNameInVocabulary ==
  (resolver_result # NoResult /\ resolver_result.intent # NoIntent) =>
    resolver_result.intent.name \in possible_intents \cup {"unknown"}


\* C26: every Intent the resolver produces has a confidence in the closed
\* range [0, 1], for every input and every tier; here for the local tier,
\* in tenths.
C26_ConfidenceWithinUnit ==
  \A k \in 1..Len(matcher_outcomes) :
    matcher_outcomes[k].intent # NoIntent =>
      /\ matcher_outcomes[k].intent.confidence >= 0
      /\ matcher_outcomes[k].intent.confidence <= 10


\* the intents a plugin of the model declares
DeclaredIntents ==
  UNION {{handled_intents(p)[k] : k \in 1..Len(handled_intents(p))} :
           p \in PluginObjects}

Declares(plugin, intent) ==
  \E k \in 1..Len(handled_intents(plugin)) : handled_intents(plugin)[k] = intent

\* the plugin loaded last among those that declare the intent, None if none
LastLoaded(intent) ==
  IF \E k \in 1..Len(load_order) : Declares(load_order[k], intent)
    THEN load_order[CHOOSE k \in 1..Len(load_order) :
                      /\ Declares(load_order[k], intent)
                      /\ \A j \in (k + 1)..Len(load_order) :
                           ~Declares(load_order[j], intent)]
    ELSE None

\* C27: when two loaded plugins declare the same intent, the intent is
\* dispatched to the plugin loaded last: after any sequence of load_plugin
\* calls plugin_handlers[intent] is the plugin that was loaded successfully
\* most recently among those that declare the intent.
C27_LastRegistrationWins ==
  \A intent \in DeclaredIntents :
    get(plugin_handlers, intent) = LastLoaded(intent)

\* two plugins that declare 'calculation' were loaded, the calculator last,
\* and the intent was dispatched to it
C27_CollisionSeen ==
  /\ load_order = <<"ExternalPlugin", "CalculatorPlugin">>
  /\ get(plugin_handlers, "translate") = "ExternalPlugin"
  /\ last_execution # NoResult
  /\ last_execution.intent_name = "calculation"
  /\ last_execution.invoked = <<"CalculatorPlugin">>


\* the texts of the 'error' template set
ErrorTemplates ==
  {response_templates.error[k] : k \in 1..Len(response_templates.error)}

\* a turn that resolved an intent and returned what the plugin manager's
\* execution of it yielded, and the execution failed
PluginFailed(t) ==
  /\ Done(t)
  /\ processed[t].raised = ""
  /\ processed[t].source \in {"gpt", "local", "fallback"}
  /\ response[t].raised = ""
  /\ response[t].intent # None
  /\ ~response[t].success

\* C28: when the plugin execution of a turn fails, the turn returns
\* success = false with a message from the 'error' template set, whatever the
\* source of the intent, and never the reasoning text of the remote
\* classifier.
C28_PluginFailureApologizes ==
  \A t \in Tasks :
    PluginFailed(t) => response[t].message \in ErrorTemplates


\* C29: a failure or the absence of the external tagger never aborts the
\* entity extraction: the numeric and the file-path rule still run and the
\* entities they find are returned.
C29_RulesRunWithoutTagger ==
  (entity_result # NoResult /\ entity_call.tagger = "fails") =>
    /\ entity_result.raised = ""
    /\ \A k \in 1..Len(extract_custom_entities(entity_call.text)) :
         \E j \in 1..Len(entity_result.entities) :
           entity_result.entities[j] =
             extract_custom_entities(entity_call.text)[k]


\* the call takes the expression branch: no two numbers with an operator are
\* given, and an expression is given or was found in original_text
ExpressionBranch ==
  /\ calc_result # NoResult
  /\ ~(Len(calc_parameters.numbers) >= 2 /\ calc_parameters.operators # <<>>)
  /\ expression_of(calc_parameters) # ""

\* every character is a digit, '.', a parenthesis, + - * / or whitespace
OnlyArithmeticCharacters(text) ==
  \A i \in 1..Len(text) :
    LET c == SubSeq(text, i, i)
    IN  \/ c \in {"0", "1", "2", "3", "4", "5", "6", "7", "8", "9"}
        \/ c \in {".", "(", ")", "+", "-", "*", "/"}
        \/ c \in {" ", "\t", "\n", "\r"}

\* C30: the calculator evaluates a raw expression only if every character of
\* it is a digit, '.', a parenthesis, + - * / or whitespace; any other
\* expression is rejected with an error result and never evaluated, and an
\* evaluation of an accepted expression that fails is returned as an error
\* result.
C30_OnlyArithmeticEvaluated ==
  ExpressionBranch =>
    IF OnlyArithmeticCharacters(expression_of(calc_parameters))
      THEN IF py_eval(strip(expression_of(calc_parameters))).err = ""
             THEN /\ calc_result.success
                  /\ calc_result.data.result =
                       py_eval(strip(expression_of(calc_parameters))).val
             ELSE /\ ~calc_result.success
                  /\ calc_result.error =
                       "Invalid mathematical expression: "
                         \o py_eval(strip(expression_of(calc_parameters))).err
      ELSE calc_result = error_result("Expression contains invalid characters")

\* an expression with a letter after an arithmetic prefix was rejected
C30_RejectedSeen ==
  /\ calc_parameters.expression = "2+a"
  /\ calc_parameters.numbers = <<>>
  /\ calc_result = error_result("Expression contains invalid characters")


\* a call of the adapter in which a prompt was trimmed: _trim_messages called
\* directly, or generate_response with a prompt over the context window
PromptTrimmed ==
  /\ adapter_result # NoResult
  /\ \/ adapter_call.op = "_trim_messages"
     \/ /\ adapter_call.op = "generate_response"
        /\ adapter_call.available
        /\ total_tokens(build_messages(adapter_call.user_input,
                                       adapter_call.context,
                                       adapter_call.system_prompt),
                        adapter_call.encoder, 1) > adapter_call.context_window

\* the prompt before the trimming, the prompt after it, and the token budgets
AssembledPrompt ==
  IF adapter_call.op = "_trim_messages" THEN adapter_call.messages
  ELSE build_messages(adapter_call.user_input, adapter_call.context,
                      adapter_call.system_prompt)

TrimmedPrompt ==
  IF adapter_call.op = "_trim_messages" THEN adapter_result.returned
  ELSE adapter_result.sent

ConfiguredBudget ==
  IF adapter_call.op = "_trim_messages" THEN adapter_call.target_tokens
  ELSE adapter_call.context_window

TrimTarget ==
  IF adapter_call.op = "_trim_messages" THEN adapter_call.target_tokens
  ELSE adapter_call.context_window \div 2

Inner(msgs) == SubSeq(msgs, 2, Len(msgs) - 1)

\* the system message first, the user turn last, between them a suffix of the
\* history
KeepsEndsAndRecentHistory(assembled, trimmed) ==
  /\ Len(trimmed) >= 2
  /\ trimmed[1] = assembled[1]
  /\ trimmed[1].role = "system"
  /\ trimmed[Len(trimmed)] = assembled[Len(assembled)]
  /\ IsSuffix(Inner(trimmed), Inner(assembled))

C32_UnavailableAdapterRaises ==
  (/\ adapter_result # NoResult
   /\ adapter_call.op \in {"generate_response", "classify_intent_advanced",
                           "extract_entities_advanced"}
   /\ ~adapter_call.available) =>
    /\ adapter_result.raised # ""
    /\ adapter_result.sent = <<>>


\* C33: the shutdown completes with the plugin registry (plugins and
\* plugin_handlers) empty, having invoked shutdown on every loaded plugin,
\* also when shutdowns of plugins raise, and after it execute_intent returns
\* an error result for every intent name.
C33_ShutdownReachesEveryLoadedPlugin ==
  shut_down # NoResult =>
    /\ \A plugin \in shut_down.loaded :
         status[plugin] = "loaded" => plugin \in shut_down.loop.invoked
    /\ load_order = <<>> =>
         /\ plugins = EmptyDict
         /\ plugin_handlers = EmptyDict
         /\ \A intent_name \in RegistryIntents, env \in Environments :
              ~execute_intent(intent_name, NoParams, registry,
                              conversation_history, env).result.success


\* C34: when the OS-integration collaborator fails while the system
\* information is gathered, the system-info plugin returns an error result
\* (success = false with error set) and never raises; it returns
\* success = true only when the system information was obtained.
C34_SystemInfoFailureIsError ==
  (/\ last_execution # NoResult
   /\ last_execution.invoked = <<"SystemControlPlugin">>) =>
    /\ last_execution.raised = FALSE
    /\ IF last_execution.env = "ok"
         THEN last_execution.result.success
         ELSE /\ ~last_execution.result.success
              /\ last_execution.result.error # None


C36_NoRemoteCallWhenDisabled ==
  (/\ adapter_result # NoResult
   /\ adapter_call.op = "process"
   /\ ~adapter_call.use_gpt) =>
    adapter_result.sent = <<>>


\* the intent names the resolver can hand to execute_intent: the keys of the
\* pattern table but "shutdown", the name the orchestrator uses for a turn
\* without an intent, and "unknown"
ResolvableIntents ==
  ({intent_patterns[i].name : i \in 1..Len(intent_patterns)} \ {"shutdown"})
    \cup {"conversation", "unknown"}

\* the four core plugins are in the registry, loaded, under their names
CoreLoaded ==
  \A k \in 1..Len(CorePlugins) :
    /\ get(plugins, plugin_name(CorePlugins[k])) = CorePlugins[k]
    /\ status[CorePlugins[k]] = "loaded"

\* C37: with the core plugins loaded, every intent name the resolver can hand
\* to the dispatcher has a handler: execute_intent never answers "No plugin
\* found" for an intent of the pattern table other than "shutdown", for
\* "conversation" or for "unknown".
C37_ResolvedIntentsDispatchable ==
  CoreLoaded =>
    \A i \in ResolvableIntents :
      execute_intent(i, NoParams, registry, conversation_history, "ok").result.error
        # "No plugin found for intent: " \o i

\* C38: a successful execution by a core plugin is never rendered with the
\* "unknown" templates: the synthesizer has templates under the name of the
\* intent that was executed.
C38_SuccessNotRenderedAsUnknown ==
  (/\ last_execution # NoResult
   /\ ~last_execution.raised
   /\ last_execution.result.success
   /\ last_execution.plugin \in {CorePlugins[k] : k \in 1..Len(CorePlugins)}) =>
    templates_for(Intent(last_execution.intent_name, 8, <<>>,
                         last_execution.parameters, "", "local"), None)
      # response_templates.unknown


\* C39: after any sequence of load_plugin calls, every plugin that
\* plugin_handlers refers to is the plugin stored in plugins under its name
\* and has the status LOADED, and a plugin whose initialize failed has the
\* status ERROR and is referred to by neither dict.
C39_RegistryConsistent ==
  /\ \A i \in DOMAIN plugin_handlers :
       /\ get(plugins, plugin_name(plugin_handlers[i])) = plugin_handlers[i]
       /\ status[plugin_handlers[i]] = "loaded"
  /\ \A plugin \in PluginObjects :
       status[plugin] = "error" =>
         /\ \A n \in DOMAIN plugins : plugins[n] # plugin
         /\ \A i \in DOMAIN plugin_handlers : plugin_handlers[i] # plugin


\* the step in which _process_with_openai_general raised in the turn of task
\* t and _process_with_ai went on with the local processing
RemoteFailed(t) ==
  /\ pc[t] = "general"
  /\ pc'[t] # "general"
  /\ fallback_to_local
  /\ pc'[t] = "classify" \/ processed'[t] # processed[t]

====
